---------------------------- MODULE Spec2Model ----------------------------
(***************************************************************************)
(* A model of the connection supervisor of the MCP wrapper (BackendClient, *)
(* packages/mcp-server) and of the browser-side SocketBridge               *)
(* (packages/foundry-module).                                              *)
(*                                                                         *)
(* BackendClient runs on one Node.js event loop: an action of the model is *)
(* one event-loop task together with the promise continuations it          *)
(* releases (a public call up to its first real suspension, a socket       *)
(* callback, a timer, a child-process event).  The environment (the        *)
(* backend process, the kernel) has actions of its own.                    *)
(***************************************************************************)
EXTENDS Integers, Sequences, FiniteSets, TLC

(* ----------------------------- bounds --------------------------------- *)

\* send() calls the front-end issues at a time in SpecMux
NumCalls == 2
\* correlation ids Math.random() can produce (a small id space keeps repeats in view)
NumIds == 2
\* failed connection attempts the environment produces in SpecConn
MaxConnFails == 2
\* WebSockets of the bridge alive at a time
MaxWs == 2
\* the largest config.reconnectAttempts tried
MaxReconnectCeiling == 6
NumQueryIds == 2
NumJobs == 1
\* the longest stream a backend sends, in tokens
MaxStream == 4
\* prompts submitted to the generation service
NumPrompts == 2

(* ------------------------- program constants -------------------------- *)

\* connectWithRetry: const maxAttempts = 40
maxAttempts == 40
\* connectWithRetry: 250 * Math.pow(1.4, attempt)
BaseDelayMs == 250
\* connectWithRetry: Math.min(..., 2000)
CapDelayMs == 2000

Calls == 1 .. NumCalls
Ids == 1 .. NumIds
\* a socket and a child process are named after the call that created them
Socks == Calls
Children == Calls
Null == 0

Causes == {"ECONNREFUSED", "ETIMEDOUT"}

\* scheduleReconnect: 1000 * Math.pow(2, this.reconnectAttempts)
ReconnectBaseMs == 1000
\* scheduleReconnect: Math.min(..., 30000)
ReconnectCapMs == 30000
TotalSteps == 8
WsIds == 1 .. MaxWs
QueryIds == 1 .. NumQueryIds
JobIds == 1 .. NumJobs

\* job-completed events delivered to the bridge
NumEvents == 3
Events == 1 .. NumEvents
Prompts == 1 .. NumPrompts

\* waitForServiceReady: const maxWaitTime, const checkInterval
maxWaitTime == 60000
checkInterval == 2000

\* checkHealth: axios.get(..., {timeout: 5000})
HealthTimeoutMs == 5000
ConfigTypes == {"unset", "auto", "webrtc", "websocket"}
Protocols == {"http:", "https:"}

VARIABLES
    \* ---- BackendClient fields
    socket,          \* this.socket: Null or a socket
    buffer,          \* this.buffer: the receive buffer, a sequence of tokens
    pending,         \* this.pending: id -> the call whose resolve/reject it holds
    backendProcess,  \* this.backendProcess: Null or a child
    \* ---- the wrapper process and its event loop
    alive,           \* FALSE once process.exit ran
    pc,              \* where each send() call stands
    attempt,         \* connectWithRetry's loop counter, per call
    delayUs,         \* the delay of the timer a call waits on, in microseconds
    lastError,       \* connectWithRetry's lastError, per call
    reqId,           \* the id written in a call's request (Null before)
    outcome,         \* how a call's promise was settled (first settlement wins)
    settleCount,     \* how often resolve/reject of a call's promise was invoked
    \* ---- sockets and child processes as node sees them
    sockState,       \* per socket: none | open | errclose | close | closed
    killed,          \* child.killed, per child
    \* ---- environment
    childState,      \* per child: none | running | dead (exit not yet reported) | reaped
    exitCode,        \* per child: the code its exit event carries ("null" for a signal)
    listener,        \* the child that listens on the control port, or Null
    extUp,           \* a backend started by someone else listens on the control port
    inbox,           \* per socket: the calls whose request the backend has read
    wire,            \* per socket: tokens sent by the backend, not yet delivered
    callers,         \* the calls the front-end will issue
    badParams,       \* the calls whose params JSON.stringify cannot serialise
    failsLeft,       \* failed connection attempts the environment may still produce
    \* ---- history
    ensureRet,       \* per call: what ensure() did: none | usable | unusable | threw
    lastCause,       \* per call: the cause of its most recent failed connect
    waited,          \* per call: backoff timers it has waited out
    wroteOn,         \* per call: the socket its request was written to (Null before)
    arrived,         \* the calls whose whole response line has been handed to onData
    sigCount,        \* per child: kill signals delivered to it
    destroyCount,    \* per socket: effective destroy() calls
    cleanRun,        \* cleanup() calls made in a row up to now, counted to 2
    lastExit         \* the code of the exit event handled last ("none" before)

bcVars == << socket, buffer, pending, backendProcess, alive, pc, attempt, delayUs,
             lastError, reqId, outcome, settleCount, sockState, killed, childState,
             exitCode, listener, extUp, inbox, wire, callers, badParams, failsLeft,
             ensureRet, lastCause, waited, wroteOn, arrived, sigCount, destroyCount,
             cleanRun, lastExit >>

\* SocketBridge (foundry-module): the browser's side of the bridge
VARIABLES
    connectionState,       \* "disconnected", "connecting", "connected", "reconnecting"
    reconnectAttempts,
    maxReconnectAttempts,  \* config.reconnectAttempts
    reconnectTimer,        \* the delay of the timer that is set, Null when none is
    ws,                    \* this.ws: a WebSocket, or Null
    wsState,               \* per WebSocket: "none", "connecting", "aborted", "open",
                           \* "errored" (its 'close' is still to come), "closed"
    connectTimeout,        \* per WebSocket: its connect timeout is set, which is
                           \* when the promise of its connectWebSocket() is pending
    rtcPending,            \* there is a webrtc.connect() that has not ended
    configConnectionType,  \* config.connectionType: "unset", "auto", "webrtc", "websocket"
    pageProtocol,          \* window.location.protocol
    activeConnectionType,  \* "none" (null), "websocket", "webrtc"
    webrtc,                \* this.webrtc is set
    rtcLive,               \* the channel of this.webrtc is up
    chosen,                \* the delays scheduleReconnect chose since the last
                           \* successful connection
    lastSettle,            \* how the last connect() promise to settle was settled
    quiet,                 \* the transport was closed cleanly and connect() has not
                           \* been called since
    lastSend,              \* what the last sendMessage() did with its message
    query,                 \* the mcp-query being handled
    response               \* the response to the last mcp-query, once it is there

\* the configuration of a bridge
cfgVars == << maxReconnectAttempts, configConnectionType, pageProtocol >>
\* what sendMessage and handleMCPQuery leave behind
msgVars == << lastSend, query, response >>

sbVars == << connectionState, reconnectAttempts, reconnectTimer, ws, wsState,
             connectTimeout, rtcPending, activeConnectionType, webrtc, rtcLive, chosen,
             lastSettle, quiet, cfgVars, msgVars >>

\* Job tracking (backend): the job table and the generation service it follows
VARIABLES
    jobs,               \* per job id: status, completed_at, progress_percent, result
    external,           \* per job id: where its prompt is in the generation service
    progressCallbacks,  \* the job ids with a registered progress callback
    due,                \* the job ids whose retention deadline has passed
    lastCancel,         \* what the last cancel of a job returned
    lastStatus          \* what the last check-map-status call came to

jobVars == << jobs, external, progressCallbacks, due, lastCancel, lastStatus >>

\* ComfyUIClient: the service process and the wait for it to become ready
VARIABLES
    process,            \* this.process: "unset" or "running"
    available,          \* whether GET /system_stats would be answered now
    waitPc,             \* where waitForServiceReady stands
    elapsedMs,          \* Date.now() - startTime of the wait
    health,             \* what the last checkHealth() of the wait returned
    waitRet             \* how waitForServiceReady ended

waitVars == << process, available, waitPc, elapsedMs, health, waitRet >>

\* Foundry world, as the job-completed handler of the bridge sees it
VARIABLES
    folders,            \* number of Scene folders named 'AI Generated Maps'
    handler,            \* per job-completed event: where its handler stands
    activated           \* the events whose scene was activated

worldVars == << folders, handler, activated >>

\* what the backend wrote on socket 1 since it was connected, delivered or not
VARIABLE stream

\* the calls whose caller has stopped waiting: its own timer fired first
VARIABLE timedOut

\* ComfyUIClient.stopService: the spawned process and the force-kill timer
VARIABLES
    child,              \* the spawned process: "none", "running", "termed" (got
                        \* SIGTERM, still alive) or "exited"
    forceTimer,         \* whether the 5000 ms timer of stopService is set
    timerRan            \* whether that timer has fired

stopVars == << child, forceTimer, timerRan >>

\* ComfyUIClient and the generation service it talks to
VARIABLES
    svc,                \* per prompt id: where the prompt is in the service
    callbacks,          \* this.progressCallbacks: the prompt ids with a callback
    lastProgress,       \* the last progress message: whose it was, who was called
    lastInterrupt       \* the last cancelJob: the prompt named, the prompt stopped

promptVars == << svc, callbacks, lastProgress, lastInterrupt >>

moreVars == << timedOut, stopVars, promptVars >>

auxVars == << waitVars, worldVars, stream, moreVars >>

vars == << bcVars, sbVars, jobVars, auxVars >>

(* ------------------------------ values -------------------------------- *)

\* What travels from the backend: the text of a response object, and the newline
\* that ends it.  Field "for" (the call the backend is answering) is carried for
\* the record only: the client never reads it.
Body(i, c, e) == [t |-> "body", id |-> i, for |-> c, err |-> e]
NL(c) == [t |-> "nl", id |-> Null, for |-> c, err |-> FALSE]

\* The text of a response object cut in two: neither half is JSON, the first
\* followed by the second is the object.
Open(i, c, e) == [t |-> "open", id |-> i, for |-> c, err |-> e]
Rest(i, c, e) == [t |-> "rest", id |-> i, for |-> c, err |-> e]

NoOutcome == [st |-> "pending", why |-> "none", id |-> Null, for |-> Null, cause |-> "none"]
Resolved(tok) ==
    [st |-> "resolved", why |-> "response", id |-> tok.id, for |-> tok.for, cause |-> "none"]
RejectedBy(tok) ==
    [st |-> "rejected", why |-> "response", id |-> tok.id, for |-> tok.for, cause |-> "none"]
Rejected(w, cs) ==
    [st |-> "rejected", why |-> w, id |-> Null, for |-> Null, cause |-> cs]

Range(f) == {f[x] : x \in DOMAIN f}
Min(a, b) == IF a <= b THEN a ELSE b

(* ------------------------- connectWithRetry delay --------------------- *)

\* Math.pow(1.4, k) in millionths.  1.4^k is a whole number of millionths up to
\* k = 6; 1.4^7 is above CapDelayMs / BaseDelayMs = 8 and so is every later power,
\* which is held at 1.4^7 so that the products stay inside TLC's integers.
RECURSIVE Pow14(_)
Pow14(k) ==
    IF k = 0 THEN 1000000
    ELSE IF k > 7 THEN Pow14(7)
    ELSE (Pow14(k - 1) * 14) \div 10

\* A delay that grows without the cap: what C7 must tell apart from the delay of
\* the code.
DelayUsNoCap(k) ==
    LET p == Pow14(k)
    IN  BaseDelayMs * (p \div 1000) + (BaseDelayMs * (p % 1000)) \div 1000

\* const delayMs = Math.min(250 * Math.pow(1.4, attempt), 2000), in microseconds
DelayUs(k) ==
    LET p == Pow14(k)
        raw == BaseDelayMs * (p \div 1000) + (BaseDelayMs * (p % 1000)) \div 1000
    IN  Min(raw, CapDelayMs * 1000)

(* --------------------------- the client record ------------------------ *)

\* The fields onData and rejectAll read and write, with the promises they settle.
Cur == [socket |-> socket, buffer |-> buffer, pending |-> pending,
        outcome |-> outcome, settleCount |-> settleCount]

Apply(r) ==
    /\ socket' = r.socket
    /\ buffer' = r.buffer
    /\ pending' = r.pending
    /\ outcome' = r.outcome
    /\ settleCount' = r.settleCount

\* p.resolve(v) / p.reject(e) of call c's promise: a promise keeps its first settlement
Settle(st, c, o) ==
    [st EXCEPT !.settleCount[c] = @ + 1,
               !.outcome[c] = IF @.st = "pending" THEN o ELSE @]

RECURSIVE SettleAll(_, _, _)
SettleAll(st, cs, o) ==
    IF cs = {} THEN st
    ELSE LET c == CHOOSE x \in cs : TRUE
         IN  SettleAll(Settle(st, c, o), cs \ {c}, o)

PendingCalls(p) == {p[i] : i \in {j \in DOMAIN p : p[j] # Null}}

(* ------------------------------- onData ------------------------------- *)

\* this.buffer.indexOf('\n'), 0 when there is none
IndexOfNL(buf) ==
    IF \E i \in 1 .. Len(buf) : buf[i].t = "nl"
    THEN CHOOSE i \in 1 .. Len(buf) :
            buf[i].t = "nl" /\ \A j \in 1 .. (i - 1) : buf[j].t # "nl"
    ELSE 0

\* JSON.parse(line) succeeds: the line holds one whole response object and nothing
\* else, in one piece or in the two halves it was cut into
ParseOk(line) ==
    \/ Len(line) = 1 /\ line[1].t = "body"
    \/ /\ Len(line) = 2
       /\ line[1].t = "open"
       /\ line[2] = [line[1] EXCEPT !.t = "rest"]

\* A loop that hands each response to the oldest pending request, whatever id the
\* response carries: what C1 must tell apart from the loop of the code.
RECURSIVE OnDataLoopAnyId(_)
OnDataLoopAnyId(st) ==
    LET idx == IndexOfNL(st.buffer)
    IN  IF idx = 0 THEN st
        ELSE
          LET line == SubSeq(st.buffer, 1, idx - 1)
              st1 == [st EXCEPT !.buffer = SubSeq(st.buffer, idx + 1, Len(st.buffer))]
              waiting == {i \in Ids : st1.pending[i] # Null}
          IN  IF Len(line) = 0 \/ ~ParseOk(line) \/ waiting = {} THEN OnDataLoopAnyId(st1)
              ELSE
                LET i == CHOOSE x \in waiting : \A y \in waiting : x <= y
                IN  OnDataLoopAnyId(
                       Settle([st1 EXCEPT !.pending[i] = Null], st1.pending[i],
                              IF line[1].err THEN RejectedBy(line[1]) ELSE Resolved(line[1])))

\* A loop that a line which is not JSON brings to an end, the rest of the chunk
\* left in the buffer: what C30 must tell apart from the loop of the code.
RECURSIVE OnDataLoopStopsAtBadFrame(_)
OnDataLoopStopsAtBadFrame(st) ==
    LET idx == IndexOfNL(st.buffer)
    IN  IF idx = 0 THEN st
        ELSE
          LET line == SubSeq(st.buffer, 1, idx - 1)
              st1 == [st EXCEPT !.buffer = SubSeq(st.buffer, idx + 1, Len(st.buffer))]
          IN  IF Len(line) = 0 THEN OnDataLoopStopsAtBadFrame(st1)
              ELSE IF ~ParseOk(line) THEN st1
              ELSE
                LET msg == line[1]
                    c == st1.pending[msg.id]
                IN  IF c = Null THEN OnDataLoopStopsAtBadFrame(st1)
                    ELSE OnDataLoopStopsAtBadFrame(
                           Settle([st1 EXCEPT !.pending[msg.id] = Null], c,
                                  IF msg.err THEN RejectedBy(msg) ELSE Resolved(msg)))

\* the while loop of onData: one line per turn
RECURSIVE OnDataLoop(_)
OnDataLoop(st) ==
    LET idx == IndexOfNL(st.buffer)
    IN  IF idx = 0 THEN st
        ELSE
          LET line == SubSeq(st.buffer, 1, idx - 1)
              st1 == [st EXCEPT !.buffer = SubSeq(st.buffer, idx + 1, Len(st.buffer))]
          IN  IF Len(line) = 0 THEN OnDataLoop(st1)
              ELSE IF ~ParseOk(line) THEN OnDataLoop(st1)
              ELSE
                LET msg == line[1]
                    c == st1.pending[msg.id]
                IN  IF c = Null THEN OnDataLoop(st1)
                    ELSE OnDataLoop(
                           Settle([st1 EXCEPT !.pending[msg.id] = Null], c,
                                  IF msg.err THEN RejectedBy(msg) ELSE Resolved(msg)))

\* An onData that forgets what is left of a chunk after its last newline: what
\* C29 must tell apart from the onData of the code.
onDataDropsPartial(st, chunk) ==
    [OnDataLoop([st EXCEPT !.buffer = @ \o chunk]) EXCEPT !.buffer = << >>]

\* this.buffer += chunk, then the loop
onData(st, chunk) == OnDataLoop([st EXCEPT !.buffer = @ \o chunk])

(* ------------------------------ rejectAll ----------------------------- *)

\* A rejectAll that leaves the table as it found it: what C2 must tell apart
\* from the rejectAll of the code.
rejectAllKeepTable(st, err) ==
    [SettleAll(st, PendingCalls(st.pending), Rejected(err, "none")) EXCEPT !.socket = Null]

\* A rejectAll that keeps the socket reference: what C28 must tell apart from
\* the rejectAll of the code.
rejectAllKeepSocket(st, err) ==
    [SettleAll(st, PendingCalls(st.pending), Rejected(err, "none"))
        EXCEPT !.pending = [i \in Ids |-> Null]]

\* rejectAll(err): every pending promise is rejected, the table cleared, the
\* socket reference dropped
rejectAll(st, err) ==
    [SettleAll(st, PendingCalls(st.pending), Rejected(err, "none"))
        EXCEPT !.pending = [i \in Ids |-> Null], !.socket = Null]

(* ------------------------------- Init --------------------------------- *)

\* the fields a retry loop leaves as the constructor set them
InitFields ==
    /\ socket = Null
    /\ buffer = << >>
    /\ pending = [i \in Ids |-> Null]
    /\ alive = TRUE
    /\ reqId = [c \in Calls |-> Null]
    /\ outcome = [c \in Calls |-> NoOutcome]
    /\ settleCount = [c \in Calls |-> 0]
    /\ sockState = [s \in Socks |-> "none"]
    /\ killed = [k \in Children |-> FALSE]
    /\ exitCode = [k \in Children |-> "none"]
    /\ listener = Null
    /\ inbox = [s \in Socks |-> {}]
    /\ wire = [s \in Socks |-> << >>]
    /\ ensureRet = [c \in Calls |-> "none"]
    /\ wroteOn = [c \in Calls |-> Null]
    /\ arrived = {}
    /\ sigCount = [k \in Children |-> 0]
    /\ destroyCount = [s \in Socks |-> 0]
    /\ cleanRun = 0
    /\ lastExit = "none"

NoSettle == [how |-> "none", ready |-> FALSE, left |-> FALSE]
NoSend == [to |-> "none", state |-> "none"]
NoQuery == [id |-> Null, kind |-> "none"]
NoResponse == [id |-> Null, success |-> FALSE, body |-> "none", for |-> NoQuery]

NoStatus == [id |-> Null, kind |-> "none", raised |-> FALSE, result |-> Null]

\* a job id nothing was submitted under
NoJob == [status |-> "none", completed_at |-> Null, progress_percent |-> 0,
          result |-> Null]

\* the job table and the generation service before any job is submitted
InitJobs ==
    /\ jobs = [j \in JobIds |-> NoJob]
    /\ external = [j \in JobIds |-> "none"]
    /\ progressCallbacks = {}
    /\ due = {}
    /\ lastCancel = "none"
    /\ lastStatus = NoStatus

\* new ComfyUIClient(options): no process, nothing listening, no wait
InitService ==
    /\ process = "unset"
    /\ available = FALSE
    /\ waitPc = "idle"
    /\ elapsedMs = 0
    /\ health = "none"
    /\ waitRet = "none"

NoProgress == [owner |-> Null, called |-> {}]
NoInterrupt == [asked |-> Null, stopped |-> Null]

\* no caller has timed out, no process was spawned, no prompt was submitted
InitMore ==
    /\ timedOut = {}
    /\ child = "none"
    /\ forceTimer = FALSE
    /\ timerRan = FALSE
    /\ svc = [p \in Prompts |-> "none"]
    /\ callbacks = {}
    /\ lastProgress = NoProgress
    /\ lastInterrupt = NoInterrupt

\* a world without the folder, before any job-completed event
InitWorld ==
    /\ folders = 0
    /\ handler = [e \in Events |-> "none"]
    /\ activated = {}

\* new SocketBridge(config)
InitBridge ==
    /\ connectionState = "disconnected"
    /\ reconnectAttempts = 0
    /\ reconnectTimer = Null
    /\ ws = Null
    /\ wsState = [i \in WsIds |-> "none"]
    /\ connectTimeout = [i \in WsIds |-> FALSE]
    /\ rtcPending = FALSE
    /\ activeConnectionType = "none"
    /\ webrtc = FALSE
    /\ rtcLive = FALSE
    /\ chosen = << >>
    /\ lastSettle = NoSettle
    /\ quiet = FALSE
    /\ lastSend = NoSend
    /\ query = NoQuery
    /\ response = NoResponse

\* a bridge that is never asked to connect
IdleBridge ==
    /\ InitBridge
    /\ InitJobs
    /\ InitService
    /\ InitWorld
    /\ stream = << >>
    /\ InitMore
    /\ maxReconnectAttempts = 0
    /\ configConnectionType = "websocket"
    /\ pageProtocol = "http:"

\* new BackendClient(), and no call made yet
InitClient ==
    /\ InitFields
    /\ backendProcess = Null
    /\ childState = [k \in Children |-> "none"]
    /\ pc = [c \in Calls |-> "idle"]
    /\ attempt = [c \in Calls |-> 0]
    /\ delayUs = [c \in Calls |-> 0]
    /\ lastError = [c \in Calls |-> "none"]
    /\ lastCause = [c \in Calls |-> "none"]
    /\ waited = [c \in Calls |-> 0]

\* Call 1 waiting for its last retry: the first connect() and every retry but one
\* have failed, the backend it spawned runs and does not listen yet.
InitLastRetry ==
    /\ InitFields
    /\ backendProcess = 1
    /\ childState = [k \in Children |-> IF k = 1 THEN "running" ELSE "none"]
    /\ pc = [c \in Calls |-> IF c = 1 THEN "delay" ELSE "idle"]
    /\ attempt = [c \in Calls |-> IF c = 1 THEN maxAttempts - 1 ELSE 0]
    /\ delayUs = [c \in Calls |-> IF c = 1 THEN DelayUs(maxAttempts - 1) ELSE 0]
    /\ \E cause \in Causes :
          /\ lastError = [c \in Calls |-> IF c = 1 THEN cause ELSE "none"]
          /\ lastCause = [c \in Calls |-> IF c = 1 THEN cause ELSE "none"]
    /\ waited = [c \in Calls |-> IF c = 1 THEN maxAttempts - 1 ELSE 0]

\* One call, any backend history, and connection failures enough to wear out
\* every retry.
Init ==
    /\ InitClient
    /\ IdleBridge
    /\ extUp \in BOOLEAN
    /\ callers = {1}
    /\ badParams \in SUBSET callers
    /\ failsLeft = maxAttempts + 1

\* A bridge with any configuration, beside a client that makes no call.
InitSocketBridge ==
    /\ InitBridge
    /\ InitJobs
    /\ InitService
    /\ InitWorld
    /\ stream = << >>
    /\ InitMore
    /\ maxReconnectAttempts \in 0 .. MaxReconnectCeiling
    /\ configConnectionType \in {"webrtc", "websocket"}
    /\ pageProtocol = "http:"
    /\ InitClient
    /\ extUp = FALSE
    /\ callers = {}
    /\ badParams = {}
    /\ failsLeft = 0

\* a client and a bridge that are never used
InitIdle ==
    /\ InitClient
    /\ IdleBridge
    /\ extUp = FALSE
    /\ callers = {}
    /\ badParams = {}
    /\ failsLeft = 0

\* a bridge with one reconnection attempt and an explicit transport
InitMsg ==
    /\ InitBridge
    /\ InitJobs
    /\ InitService
    /\ InitWorld
    /\ stream = << >>
    /\ InitMore
    /\ maxReconnectAttempts = 1
    /\ configConnectionType \in {"webrtc", "websocket"}
    /\ pageProtocol = "http:"
    /\ InitClient
    /\ extUp = FALSE
    /\ callers = {}
    /\ badParams = {}
    /\ failsLeft = 0

\* a bridge that does not reconnect, with an explicit transport
InitQuery ==
    /\ InitBridge
    /\ InitJobs
    /\ InitService
    /\ InitWorld
    /\ stream = << >>
    /\ InitMore
    /\ maxReconnectAttempts = 0
    /\ configConnectionType \in {"webrtc", "websocket"}
    /\ pageProtocol = "http:"
    /\ InitClient
    /\ extUp = FALSE
    /\ callers = {}
    /\ badParams = {}
    /\ failsLeft = 0

\* a bridge with one reconnection attempt, any connectionType setting and either
\* page protocol
InitSelect ==
    /\ InitBridge
    /\ InitJobs
    /\ InitService
    /\ InitWorld
    /\ stream = << >>
    /\ InitMore
    /\ maxReconnectAttempts = 1
    /\ configConnectionType \in ConfigTypes
    /\ pageProtocol \in Protocols
    /\ InitClient
    /\ extUp = FALSE
    /\ callers = {}
    /\ badParams = {}
    /\ failsLeft = 0

\* One call with params that serialise, and no backend running.
InitStart ==
    /\ InitClient
    /\ IdleBridge
    /\ extUp = FALSE
    /\ callers = {1}
    /\ badParams = {}
    /\ failsLeft = maxAttempts + 1

\* Several calls in flight over a backend that is up: every connect() succeeds.
InitMux ==
    /\ InitClient
    /\ IdleBridge
    /\ extUp = TRUE
    /\ callers = Calls
    /\ badParams = {}
    /\ failsLeft = 0

\* Two calls in flight while connections fail, succeed and are lost; the first
\* call is either still to be made or at its last retry.
InitConn ==
    /\ IdleBridge
    /\ \/ InitClient /\ extUp \in BOOLEAN
       \/ InitLastRetry /\ extUp = FALSE
    /\ callers = {1, 2}
    /\ badParams \in {{}, {2}}
    /\ failsLeft = MaxConnFails

\* what a backend may put on the wire: whole responses to calls 1 and 2, the
\* first of them also cut in two, and newlines
StreamTokens ==
    {Body(1, 1, FALSE), Body(2, 2, TRUE), Open(1, 1, FALSE), Rest(1, 1, FALSE), NL(1)}

Streams == UNION {[1 .. n -> StreamTokens] : n \in 0 .. MaxStream}

\* the pending table when the calls of W have been written on socket 1, each
\* under the id of its own number
FrameTable(W) == [i \in Ids |-> IF i \in W THEN i ELSE Null]

\* The calls of W written on socket 1 and waiting, and a backend that has put
\* any stream of tokens on the wire.
InitFrames ==
    /\ InitBridge
    /\ InitJobs
    /\ InitService
    /\ InitWorld
    /\ maxReconnectAttempts = 0
    /\ configConnectionType = "websocket"
    /\ pageProtocol = "http:"
    /\ \E W \in SUBSET {1, 2} :
          /\ pending = FrameTable(W)
          /\ reqId = [c \in Calls |-> IF c \in W THEN c ELSE Null]
          /\ pc = [c \in Calls |-> IF c \in W THEN "written" ELSE "idle"]
          /\ wroteOn = [c \in Calls |-> IF c \in W THEN 1 ELSE Null]
          /\ ensureRet = [c \in Calls |-> IF c \in W THEN "usable" ELSE "none"]
          /\ callers = W
    /\ stream \in Streams
    /\ InitMore
    /\ wire = [s \in Socks |-> IF s = 1 THEN stream ELSE << >>]
    /\ socket = 1
    /\ sockState = [s \in Socks |-> IF s = 1 THEN "open" ELSE "none"]
    /\ buffer = << >>
    /\ alive = TRUE
    /\ outcome = [c \in Calls |-> NoOutcome]
    /\ settleCount = [c \in Calls |-> 0]
    /\ killed = [k \in Children |-> FALSE]
    /\ exitCode = [k \in Children |-> "none"]
    /\ listener = Null
    /\ inbox = [s \in Socks |-> {}]
    /\ arrived = {}
    /\ sigCount = [k \in Children |-> 0]
    /\ destroyCount = [s \in Socks |-> 0]
    /\ cleanRun = 0
    /\ lastExit = "none"
    /\ backendProcess = Null
    /\ childState = [k \in Children |-> "none"]
    /\ attempt = [c \in Calls |-> 0]
    /\ delayUs = [c \in Calls |-> 0]
    /\ lastError = [c \in Calls |-> "none"]
    /\ lastCause = [c \in Calls |-> "none"]
    /\ waited = [c \in Calls |-> 0]
    /\ extUp = TRUE
    /\ badParams = {}
    /\ failsLeft = 0

(* ------------------------------- send --------------------------------- *)

Listening == extUp \/ listener # Null

\* A usable channel: a socket that exists and is not destroyed.  Node sets
\* destroyed as soon as a socket is torn down, before it emits 'error' or 'close'.
ChannelUsable(sk, ss) == sk # Null /\ ss[sk] = "open"

\* An ensure() that takes any socket it holds, destroyed or not: what C4 must tell
\* apart from the ensure() of the code.
EnsureFastAnySocket(sk, ss) == sk # Null

\* ensure(): if (this.socket && !this.socket.destroyed) return
EnsureFast(sk, ss) == sk # Null /\ ss[sk] = "open"

\* const id = Math.random().toString(36).slice(2): nothing keeps the value apart
\* from the ids drawn before.  Ids differ only by name, so the draw is either an id
\* already drawn or the first id never drawn.
UsedIds == {reqId[c] : c \in {d \in Calls : reqId[d] # Null}}
NewIds ==
    UsedIds \cup {i \in Ids \ UsedIds : \A j \in Ids \ UsedIds : i <= j}

\* send() from "const id = ..." on, run once ensure() has returned normally with
\* this.socket = sk.  The write throws when JSON.stringify(req) does, or when
\* this.socket is null.
SendWrite(c, sk, usable) ==
    \E id \in NewIds :
        /\ ensureRet' = [ensureRet EXCEPT ![c] = IF usable THEN "usable" ELSE "unusable"]
        /\ reqId' = [reqId EXCEPT ![c] = id]
        /\ IF c \in badParams \/ sk = Null
           THEN \* catch (e): this.pending.delete(id); reject(e)
                /\ pending' = [pending EXCEPT ![id] = Null]
                /\ outcome' = Settle(Cur, c, Rejected("write", "none")).outcome
                /\ settleCount' = Settle(Cur, c, Rejected("write", "none")).settleCount
                /\ pc' = [pc EXCEPT ![c] = "failed"]
                /\ UNCHANGED << inbox, wroteOn >>
           ELSE /\ pending' = [pending EXCEPT ![id] = c]
                /\ inbox' = [inbox EXCEPT ![sk] = @ \cup {c}]
                /\ wroteOn' = [wroteOn EXCEPT ![c] = sk]
                /\ pc' = [pc EXCEPT ![c] = "written"]
                /\ UNCHANGED << outcome, settleCount >>

\* send(method, params) up to its first suspension: ensure() either finds a usable
\* socket, and the request is written, or starts connectWithRetry's first connect()
Send(c) ==
    /\ alive
    /\ c \in callers
    /\ pc[c] = "idle"
    /\ \A d \in Calls : d < c => pc[d] # "idle"   \* calls are numbered as they are made
    /\ IF EnsureFast(socket, sockState)
       THEN /\ SendWrite(c, socket, ChannelUsable(socket, sockState))
            /\ UNCHANGED << socket, sockState >>
       ELSE /\ pc' = [pc EXCEPT ![c] = "connect0"]
            /\ UNCHANGED << socket, sockState, pending, outcome, settleCount, reqId,
                            inbox, ensureRet, wroteOn >>
    /\ UNCHANGED << buffer, backendProcess, alive, attempt, delayUs, lastError, killed,
                    childState, exitCode, listener, extUp, wire, callers, badParams, failsLeft,
                    lastCause, waited, arrived, sigCount, destroyCount, lastExit >>
    /\ cleanRun' = 0
    /\ UNCHANGED << sbVars, jobVars, auxVars >>

(* ------------------------------ connect ------------------------------- *)

\* the connection listener of connect(): this.socket = sock, the handlers are
\* attached, resolve()
ConnectCallback(c) ==
    /\ socket' = c
    /\ sockState' = [sockState EXCEPT ![c] = "open"]

\* connect() succeeded for call c: connectWithRetry and ensure() return, send() goes on
ConnectOk(c) ==
    /\ alive
    /\ pc[c] \in {"connect0", "connect"}
    /\ Listening
    /\ ConnectCallback(c)
    /\ SendWrite(c, socket', ChannelUsable(socket', sockState'))
    /\ UNCHANGED << buffer, backendProcess, alive, attempt, delayUs, lastError, killed,
                    childState, exitCode, listener, extUp, wire, callers, badParams, failsLeft,
                    lastCause, waited, arrived, sigCount, destroyCount, lastExit >>
    /\ cleanRun' = 0
    /\ UNCHANGED << sbVars, jobVars, auxVars >>

\* startBackend(): spawn the backend, keep the handle, watch its exit
startBackend(c) ==
    /\ backendProcess' = c
    /\ childState' = [childState EXCEPT ![c] = "running"]

\* A connectWithRetry that gives up at the first failed connect(): what C10 must
\* tell apart from the connectWithRetry of the code.
InitialFailedGivesUp(c, cause) ==
    /\ lastError' = [lastError EXCEPT ![c] = cause]
    /\ outcome' = Settle(Cur, c, Rejected("terminal", cause)).outcome
    /\ settleCount' = Settle(Cur, c, Rejected("terminal", cause)).settleCount
    /\ ensureRet' = [ensureRet EXCEPT ![c] = "threw"]
    /\ pc' = [pc EXCEPT ![c] = "failed"]
    /\ UNCHANGED << backendProcess, childState, attempt, delayUs >>

\* catch (initialError): startBackend(), then the loop's first delay
InitialFailed(c, cause) ==
    /\ startBackend(c)
    /\ lastError' = [lastError EXCEPT ![c] = cause]
    /\ attempt' = [attempt EXCEPT ![c] = 0]
    /\ delayUs' = [delayUs EXCEPT ![c] = DelayUs(0)]
    /\ pc' = [pc EXCEPT ![c] = "delay"]
    /\ UNCHANGED << outcome, settleCount, ensureRet >>

\* A loop that reports the error it was entered with instead of the last one: what
\* C5 must tell apart from the loop of the code.
RetryFailedFirstCause(c, cause) ==
    /\ lastError' = lastError
    /\ attempt' = [attempt EXCEPT ![c] = @ + 1]
    /\ IF attempt'[c] < maxAttempts
       THEN /\ delayUs' = [delayUs EXCEPT ![c] = DelayUs(attempt'[c])]
            /\ pc' = [pc EXCEPT ![c] = "delay"]
            /\ UNCHANGED << outcome, settleCount, ensureRet >>
       ELSE /\ outcome' = Settle(Cur, c, Rejected("terminal", lastError'[c])).outcome
            /\ settleCount' = Settle(Cur, c, Rejected("terminal", lastError'[c])).settleCount
            /\ ensureRet' = [ensureRet EXCEPT ![c] = "threw"]
            /\ pc' = [pc EXCEPT ![c] = "failed"]
            /\ UNCHANGED delayUs
    /\ UNCHANGED << backendProcess, childState >>

\* catch (error) inside the loop, attempt++, and either the next delay or the
\* terminal error, which ensure() passes on and send() turns into reject(e)
RetryFailed(c, cause) ==
    /\ lastError' = [lastError EXCEPT ![c] = cause]
    /\ attempt' = [attempt EXCEPT ![c] = @ + 1]
    /\ IF attempt'[c] < maxAttempts
       THEN /\ delayUs' = [delayUs EXCEPT ![c] = DelayUs(attempt'[c])]
            /\ pc' = [pc EXCEPT ![c] = "delay"]
            /\ UNCHANGED << outcome, settleCount, ensureRet >>
       ELSE /\ outcome' = Settle(Cur, c, Rejected("terminal", lastError'[c])).outcome
            /\ settleCount' = Settle(Cur, c, Rejected("terminal", lastError'[c])).settleCount
            /\ ensureRet' = [ensureRet EXCEPT ![c] = "threw"]
            /\ pc' = [pc EXCEPT ![c] = "failed"]
            /\ UNCHANGED delayUs
    /\ UNCHANGED << backendProcess, childState >>

\* connect() failed for call c (the socket's 'error' while connecting)
ConnectFail(c) ==
    /\ alive
    /\ pc[c] \in {"connect0", "connect"}
    /\ ~Listening
    /\ failsLeft > 0
    /\ failsLeft' = failsLeft - 1
    /\ \E cause \in Causes :
          /\ lastCause' = [lastCause EXCEPT ![c] = cause]
          /\ IF pc[c] = "connect0" THEN InitialFailed(c, cause) ELSE RetryFailed(c, cause)
    /\ UNCHANGED << socket, buffer, pending, alive, reqId, sockState, killed, exitCode,
                    listener, extUp, inbox, wire, callers, badParams, sigCount, destroyCount,
                    lastExit, waited, wroteOn, arrived >>
    /\ cleanRun' = 0
    /\ UNCHANGED << sbVars, jobVars, auxVars >>

\* the backoff timer of call c fires: the loop calls connect() again
TimerFire(c) ==
    /\ alive
    /\ pc[c] = "delay"
    /\ pc' = [pc EXCEPT ![c] = "connect"]
    /\ waited' = [waited EXCEPT ![c] = @ + 1]
    /\ UNCHANGED << socket, buffer, pending, backendProcess, alive, attempt, delayUs,
                    lastError, reqId, outcome, settleCount, sockState, killed, childState,
                    exitCode, listener, extUp, inbox, wire, callers, badParams, failsLeft, ensureRet,
                    lastCause, wroteOn, arrived, sigCount, destroyCount, lastExit >>
    /\ cleanRun' = 0
    /\ UNCHANGED << sbVars, jobVars, auxVars >>

(* --------------------------- socket events ---------------------------- *)

\* sock.on('data', chunk => this.onData(chunk)): the first n tokens in flight arrive
Data(s, n) ==
    /\ alive
    /\ sockState[s] = "open"
    /\ n \in 1 .. Len(wire[s])
    /\ Apply(onData(Cur, SubSeq(wire[s], 1, n)))
    /\ wire' = [wire EXCEPT ![s] = SubSeq(@, n + 1, Len(@))]
    /\ arrived' = arrived \cup {wire[s][i].for : i \in {j \in 1 .. n : wire[s][j].t = "nl"}}
    /\ cleanRun' = 0
    /\ UNCHANGED << backendProcess, alive, pc, attempt, delayUs, lastError, reqId,
                    sockState, killed, childState, exitCode, listener, extUp, inbox,
                    callers, badParams, failsLeft, ensureRet, lastCause, waited, wroteOn, sigCount, destroyCount,
                    lastExit >>
    /\ UNCHANGED << sbVars, jobVars, auxVars >>

\* sock.on('error', err => this.rejectAll(err))
SockError(s) ==
    /\ alive
    /\ sockState[s] = "errclose"
    /\ Apply(rejectAll(Cur, "sockError"))
    /\ sockState' = [sockState EXCEPT ![s] = "close"]
    /\ cleanRun' = 0
    /\ UNCHANGED << backendProcess, alive, pc, attempt, delayUs, lastError, reqId,
                    killed, childState, exitCode, listener, extUp, inbox, wire,
                    callers, badParams, failsLeft, ensureRet, lastCause, waited, wroteOn, arrived, sigCount, destroyCount,
                    lastExit >>
    /\ UNCHANGED << sbVars, jobVars, auxVars >>

\* sock.on('close', () => this.rejectAll(new Error('Backend disconnected')))
SockClose(s) ==
    /\ alive
    /\ sockState[s] = "close"
    /\ Apply(rejectAll(Cur, "disconnected"))
    /\ sockState' = [sockState EXCEPT ![s] = "closed"]
    /\ cleanRun' = 0
    /\ UNCHANGED << backendProcess, alive, pc, attempt, delayUs, lastError, reqId,
                    killed, childState, exitCode, listener, extUp, inbox, wire,
                    callers, badParams, failsLeft, ensureRet, lastCause, waited, wroteOn, arrived, sigCount, destroyCount,
                    lastExit >>
    /\ UNCHANGED << sbVars, jobVars, auxVars >>

(* ------------------------------ cleanup ------------------------------- *)

\* A cleanup that signals the child whether or not it was signalled before: what
\* C9 must tell apart from the cleanup of the code.
KillBackendAgain ==
    IF backendProcess # Null /\ childState[backendProcess] = "running"
    THEN /\ killed' = [killed EXCEPT ![backendProcess] = TRUE]
         /\ sigCount' = [sigCount EXCEPT ![backendProcess] = @ + 1]
    ELSE UNCHANGED << killed, sigCount >>

\* if (this.backendProcess && !this.backendProcess.killed) this.backendProcess.kill():
\* kill() sets killed when the signal was sent; for a child that is already dead it
\* sends nothing and leaves killed as it was
KillBackend ==
    IF backendProcess # Null /\ ~killed[backendProcess]
          /\ childState[backendProcess] = "running"
    THEN /\ killed' = [killed EXCEPT ![backendProcess] = TRUE]
         /\ sigCount' = [sigCount EXCEPT ![backendProcess] = @ + 1]
    ELSE UNCHANGED << killed, sigCount >>

\* if (this.socket && !this.socket.destroyed) this.socket.destroy(): the socket
\* delivers no more data, its 'close' is still to come
DestroySocket ==
    IF socket # Null /\ sockState[socket] = "open"
    THEN /\ sockState' = [sockState EXCEPT ![socket] = "close"]
         /\ destroyCount' = [destroyCount EXCEPT ![socket] = @ + 1]
         /\ wire' = [wire EXCEPT ![socket] = << >>]
         /\ inbox' = [inbox EXCEPT ![socket] = {}]
    ELSE UNCHANGED << sockState, destroyCount, wire, inbox >>

Cleanup ==
    /\ alive
    /\ KillBackend
    /\ DestroySocket
    /\ cleanRun' = Min(cleanRun + 1, 2)
    /\ UNCHANGED << socket, buffer, pending, backendProcess, alive, pc, attempt,
                    delayUs, lastError, reqId, outcome, settleCount, childState,
                    exitCode, listener, extUp, callers, badParams, failsLeft, ensureRet,
                    lastCause, waited, wroteOn, arrived, lastExit >>
    /\ UNCHANGED << sbVars, jobVars, auxVars >>

(* ------------------------- child process events ----------------------- *)

\* An exit handler that only clears the reference: what C6 must tell apart from
\* the handler of the code.
ExitHandlerKeepRunning(code) ==
    /\ backendProcess' = Null
    /\ alive' = alive

\* child.on('exit', code => ...): the reference is cleared; code 0 ends the wrapper
ExitHandler(code) ==
    /\ backendProcess' = Null
    /\ alive' = IF code = "0" THEN FALSE ELSE alive

ChildExit(k) ==
    /\ alive
    /\ childState[k] = "dead"
    /\ childState' = [childState EXCEPT ![k] = "reaped"]
    /\ ExitHandler(exitCode[k])
    /\ lastExit' = exitCode[k]
    /\ cleanRun' = 0
    /\ UNCHANGED << socket, buffer, pending, pc, attempt, delayUs, lastError, reqId,
                    outcome, settleCount, sockState, killed, exitCode, listener, extUp,
                    inbox, wire, callers, badParams, failsLeft, ensureRet, lastCause, waited, wroteOn, arrived, sigCount,
                    destroyCount >>
    /\ UNCHANGED << sbVars, jobVars, auxVars >>

(* ---------------------------- environment ----------------------------- *)

ExitCodes == {"0", "1", "null"}

\* a spawned backend binds the control port
ChildListen(k) ==
    /\ alive
    /\ childState[k] = "running"
    /\ ~Listening
    /\ listener' = k
    /\ cleanRun' = 0
    /\ UNCHANGED << socket, buffer, pending, backendProcess, alive, pc, attempt,
                    delayUs, lastError, reqId, outcome, settleCount, sockState, killed,
                    childState, exitCode, extUp, inbox, wire, callers, badParams, failsLeft,
                    ensureRet, lastCause, waited, wroteOn, arrived, sigCount, destroyCount, lastExit >>
    /\ UNCHANGED << sbVars, jobVars, auxVars >>

\* a spawned backend ends: by itself (code 0 or 1) or by a signal (code null)
ChildDie(k, code) ==
    /\ alive
    /\ childState[k] = "running"
    /\ childState' = [childState EXCEPT ![k] = "dead"]
    /\ exitCode' = [exitCode EXCEPT ![k] = code]
    /\ listener' = IF listener = k THEN Null ELSE listener
    /\ cleanRun' = 0
    /\ UNCHANGED << socket, buffer, pending, backendProcess, alive, pc, attempt,
                    delayUs, lastError, reqId, outcome, settleCount, sockState, killed,
                    extUp, inbox, wire, callers, badParams, failsLeft, ensureRet, lastCause, waited, wroteOn, arrived,
                    sigCount, destroyCount, lastExit >>
    /\ UNCHANGED << sbVars, jobVars, auxVars >>

\* the backend someone else started goes away
ExtStop ==
    /\ alive
    /\ extUp
    /\ extUp' = FALSE
    /\ cleanRun' = 0
    /\ UNCHANGED << socket, buffer, pending, backendProcess, alive, pc, attempt,
                    delayUs, lastError, reqId, outcome, settleCount, sockState, killed,
                    childState, exitCode, listener, inbox, wire, callers, badParams, failsLeft,
                    ensureRet, lastCause, waited, wroteOn, arrived, sigCount, destroyCount, lastExit >>
    /\ UNCHANGED << sbVars, jobVars, auxVars >>

\* the backend answers the request of call c on socket s: one line, result or error
BackendRespond(s, c, e) ==
    /\ alive
    /\ sockState[s] = "open"
    /\ c \in inbox[s]
    /\ wire' = [wire EXCEPT ![s] = @ \o << Body(reqId[c], c, e), NL(c) >>]
    /\ inbox' = [inbox EXCEPT ![s] = @ \ {c}]
    /\ cleanRun' = 0
    /\ UNCHANGED << socket, buffer, pending, backendProcess, alive, pc, attempt,
                    delayUs, lastError, reqId, outcome, settleCount, sockState, killed,
                    childState, exitCode, listener, extUp, callers, badParams, failsLeft,
                    ensureRet, lastCause, waited, wroteOn, arrived, sigCount, destroyCount, lastExit >>
    /\ UNCHANGED << sbVars, jobVars, auxVars >>

\* the connection of socket s is lost (the peer died or closed it); node tears the
\* socket down and will emit 'error' (withErr) and then 'close'
ConnLost(s, withErr) ==
    /\ alive
    /\ sockState[s] = "open"
    /\ sockState' = [sockState EXCEPT ![s] = IF withErr THEN "errclose" ELSE "close"]
    /\ wire' = [wire EXCEPT ![s] = << >>]
    /\ inbox' = [inbox EXCEPT ![s] = {}]
    /\ cleanRun' = 0
    /\ UNCHANGED << socket, buffer, pending, backendProcess, alive, pc, attempt,
                    delayUs, lastError, reqId, outcome, settleCount, killed, childState,
                    exitCode, listener, extUp, callers, badParams, failsLeft, ensureRet,
                    lastCause, waited, wroteOn, arrived, sigCount, destroyCount, lastExit >>
    /\ UNCHANGED << sbVars, jobVars, auxVars >>

(* ---------------------------- SocketBridge --------------------------- *)

RECURSIVE Pow2(_)
Pow2(k) == IF k = 0 THEN 1 ELSE 2 * Pow2(k - 1)

\* A delay that doubles without the cap: what C8 must tell apart from the delay
\* of the code.
ReconnectDelayNoCap(k) == ReconnectBaseMs * Pow2(k)

\* const delay = Math.min(1000 * Math.pow(2, this.reconnectAttempts), 30000)
ReconnectDelay(k) == Min(ReconnectBaseMs * Pow2(k), ReconnectCapMs)

\* A selection that follows the page protocol whatever the setting: what C17 must
\* tell apart from determineConnectionType.
determineConnectionTypeByProtocol(configType, protocol) ==
    IF protocol = "https:" THEN "webrtc" ELSE "websocket"

\* determineConnectionType(): this.config.connectionType || 'auto'; 'auto' follows
\* window.location.protocol, any other value is returned as it is
determineConnectionType(configType, protocol) ==
    LET t == IF configType = "unset" THEN "auto" ELSE configType
    IN  IF t = "auto"
        THEN (IF protocol = "https:" THEN "webrtc" ELSE "websocket")
        ELSE t

\* the fields scheduleReconnect reads and writes
Bridge == [connectionState |-> connectionState, reconnectAttempts |-> reconnectAttempts,
           reconnectTimer |-> reconnectTimer, chosen |-> chosen]

ApplyBridge(b) ==
    /\ connectionState' = b.connectionState
    /\ reconnectAttempts' = b.reconnectAttempts
    /\ reconnectTimer' = b.reconnectTimer
    /\ chosen' = b.chosen

\* scheduleReconnect(): nothing once the attempts are used up; else the timer is
\* replaced by one with the next delay
scheduleReconnect(b) ==
    IF b.reconnectAttempts >= maxReconnectAttempts THEN b
    ELSE [b EXCEPT !.reconnectTimer = ReconnectDelay(b.reconnectAttempts),
                   !.chosen = Append(@, ReconnectDelay(b.reconnectAttempts)),
                   !.reconnectAttempts = @ + 1,
                   !.connectionState = "reconnecting"]

\* a connect() promise settles: how, in which connection state, and whether
\* reconnection attempts were left then
Settled(how, state, attempts) ==
    [how |-> how, state |-> state, left |-> attempts < maxReconnectAttempts]

\* a WebSocket object that fires no event any more can stand for a new one
FreeWs == {i \in WsIds : wsState[i] \in {"none", "closed"}}

\* connect(): returns at once when connected or connecting; else connectWebRTC() up
\* to its await, or connectWebSocket(), where new WebSocket(url) may throw.  One
\* webrtc.connect() is followed at a time, and at most MaxWs WebSockets that can
\* still fire an event.
connect ==
    IF connectionState \in {"connected", "connecting"}
    THEN /\ lastSettle' = Settled("resolved", connectionState, reconnectAttempts)
         /\ UNCHANGED << connectionState, ws, wsState, connectTimeout, rtcPending,
                         activeConnectionType, webrtc, rtcLive >>
    ELSE IF determineConnectionType(configConnectionType, pageProtocol) = "webrtc"
    THEN /\ ~rtcPending
         /\ activeConnectionType' = "webrtc"
         /\ webrtc' = TRUE
         /\ rtcLive' = FALSE
         /\ rtcPending' = TRUE
         /\ connectionState' = "connecting"
         /\ UNCHANGED << ws, wsState, connectTimeout, lastSettle >>
    ELSE /\ activeConnectionType' = "websocket"
         /\ UNCHANGED << webrtc, rtcLive, rtcPending >>
         /\ \/ /\ connectionState' = "disconnected"
               /\ lastSettle' = Settled("rejected", "disconnected", reconnectAttempts)
               /\ UNCHANGED << ws, wsState, connectTimeout >>
            \/ \E i \in FreeWs :
                  /\ \A j \in FreeWs : i <= j
                  /\ ws' = i
                  /\ wsState' = [wsState EXCEPT ![i] = "connecting"]
                  /\ connectTimeout' = [connectTimeout EXCEPT ![i] = TRUE]
                  /\ connectionState' = "connecting"
                  /\ UNCHANGED lastSettle

\* the module calls bridge.connect()
Connect ==
    /\ connect
    /\ quiet' = FALSE
    /\ UNCHANGED << reconnectAttempts, reconnectTimer, chosen, cfgVars, msgVars, bcVars, jobVars, auxVars >>

\* the reconnect timer fires: connect()
ReconnectTimerFire ==
    /\ reconnectTimer # Null
    /\ reconnectTimer' = Null
    /\ connect
    /\ UNCHANGED << reconnectAttempts, chosen, quiet, cfgVars, msgVars, bcVars, jobVars, auxVars >>

\* await this.webrtc.connect(...) returned
RtcConnected ==
    /\ rtcPending
    /\ rtcPending' = FALSE
    /\ rtcLive' = webrtc
    /\ connectionState' = "connected"
    /\ reconnectAttempts' = 0
    /\ chosen' = << >>
    /\ lastSettle' = Settled("resolved", "connected", 0)
    /\ UNCHANGED << reconnectTimer, ws, wsState, connectTimeout, activeConnectionType,
                    webrtc, quiet, cfgVars, msgVars, bcVars, jobVars, auxVars >>

\* await this.webrtc.connect(...) threw
RtcFailed ==
    /\ rtcPending
    /\ rtcPending' = FALSE
    /\ ApplyBridge(scheduleReconnect([Bridge EXCEPT !.connectionState = "disconnected"]))
    /\ lastSettle' = Settled("rejected", connectionState', reconnectAttempts')
    /\ UNCHANGED << ws, wsState, connectTimeout, activeConnectionType, webrtc, rtcLive,
                    quiet, cfgVars, msgVars, bcVars, jobVars, auxVars >>

\* the channel of the established WebRTC connection is lost; SocketBridge gave
\* webrtc.connect() its message handler and nothing else
RtcLost ==
    /\ rtcLive
    /\ rtcLive' = FALSE
    /\ UNCHANGED << connectionState, reconnectAttempts, reconnectTimer, ws, wsState,
                    connectTimeout, rtcPending, activeConnectionType, webrtc, chosen,
                    lastSettle, quiet, cfgVars, msgVars, bcVars, jobVars, auxVars >>

\* ws.onopen of WebSocket i
WsOpen(i) ==
    /\ wsState[i] = "connecting"
    /\ wsState' = [wsState EXCEPT ![i] = "open"]
    /\ connectTimeout' = [connectTimeout EXCEPT ![i] = FALSE]
    /\ connectionState' = "connected"
    /\ reconnectAttempts' = 0
    /\ chosen' = << >>
    /\ lastSettle' = IF connectTimeout[i] THEN Settled("resolved", "connected", 0)
                     ELSE lastSettle
    /\ UNCHANGED << reconnectTimer, ws, rtcPending, activeConnectionType, webrtc,
                    rtcLive, quiet, cfgVars, msgVars, bcVars, jobVars, auxVars >>

\* ws.onerror of WebSocket i; its 'close' follows
WsError(i) ==
    /\ wsState[i] \in {"connecting", "aborted", "open"}
    /\ wsState' = [wsState EXCEPT ![i] = "errored"]
    /\ connectTimeout' = [connectTimeout EXCEPT ![i] = FALSE]
    /\ ApplyBridge(scheduleReconnect([Bridge EXCEPT !.connectionState = "disconnected"]))
    /\ lastSettle' = IF connectTimeout[i]
                     THEN Settled("rejected", connectionState', reconnectAttempts')
                     ELSE lastSettle
    /\ UNCHANGED << ws, rtcPending, activeConnectionType, webrtc, rtcLive, quiet,
                    cfgVars, msgVars, bcVars, jobVars, auxVars >>

\* ws.onclose of WebSocket i: a clean close schedules nothing
WsClose(i, wasClean) ==
    /\ \/ wsState[i] = "open"
       \/ wsState[i] = "errored" /\ ~wasClean
    /\ wsState' = [wsState EXCEPT ![i] = "closed"]
    /\ ApplyBridge(IF wasClean THEN [Bridge EXCEPT !.connectionState = "disconnected"]
                   ELSE scheduleReconnect([Bridge EXCEPT !.connectionState = "disconnected"]))
    /\ quiet' = IF wasClean /\ i = ws THEN TRUE ELSE quiet
    /\ UNCHANGED << ws, connectTimeout, rtcPending, activeConnectionType, webrtc,
                    rtcLive, lastSettle, cfgVars, msgVars, bcVars, jobVars, auxVars >>

\* A connect timeout that rejects and leaves the state at "connecting": what C11
\* must tell apart from the timeout of the code.
ConnectTimeoutKeepsState(i) ==
    /\ connectTimeout[i]
    /\ connectTimeout' = [connectTimeout EXCEPT ![i] = FALSE]
    /\ lastSettle' = Settled("rejected", connectionState, reconnectAttempts)
    /\ UNCHANGED << connectionState, reconnectAttempts, reconnectTimer, ws, wsState,
                    rtcPending, activeConnectionType, webrtc, rtcLive, chosen, quiet,
                    cfgVars, msgVars, bcVars, jobVars, auxVars >>

\* the connect timeout of WebSocket i fires
ConnectTimeout(i) ==
    /\ connectTimeout[i]
    /\ connectTimeout' = [connectTimeout EXCEPT ![i] = FALSE]
    /\ connectionState' = "disconnected"
    /\ lastSettle' = Settled("rejected", "disconnected", reconnectAttempts)
    /\ UNCHANGED << reconnectAttempts, reconnectTimer, ws, wsState, rtcPending,
                    activeConnectionType, webrtc, rtcLive, chosen, quiet, cfgVars,
                    msgVars, bcVars, jobVars, auxVars >>

\* disconnect(): the timer is cleared, this.webrtc and this.ws are closed and
\* dropped; a WebSocket closed while it connects fails with 'error' and 'close'
Disconnect ==
    /\ reconnectTimer' = Null
    /\ webrtc' = FALSE
    /\ rtcLive' = FALSE
    /\ ws' = Null
    /\ wsState' = IF ws # Null /\ wsState[ws] = "connecting"
                  THEN [wsState EXCEPT ![ws] = "aborted"]
                  ELSE wsState
    /\ activeConnectionType' = "none"
    /\ connectionState' = "disconnected"
    /\ quiet' = TRUE
    /\ UNCHANGED << reconnectAttempts, connectTimeout, rtcPending, chosen, lastSettle,
                    cfgVars, msgVars, bcVars, jobVars, auxVars >>

\* a step in which a connection attempt starts: a new WebSocket, or a
\* webrtc.connect()
AttemptStarts ==
    \/ \E i \in WsIds : wsState'[i] = "connecting" /\ wsState[i] # "connecting"
    \/ rtcPending' /\ ~rtcPending

\* a step in which scheduleReconnect() sets its timer
ReconnectScheduled == chosen' # chosen /\ chosen' # << >>

\* a step in which the active transport closes without having been asked to
UnexpectedClose ==
    \/ RtcLost
    \/ \E i \in WsIds : i = ws /\ WsClose(i, FALSE)

\* a step in which a connection, or an attempt to connect, fails
FailureStep ==
    \/ RtcFailed
    \/ \E i \in WsIds : WsError(i) \/ WsClose(i, FALSE)

\* A sendMessage that does not look at the connection state: what C15 must tell
\* apart from the sendMessage of the code.
sendMessageNoStateCheck ==
    IF activeConnectionType = "webrtc" /\ webrtc
    THEN {[to |-> "webrtc", state |-> connectionState]}
         \cup (IF rtcLive THEN {} ELSE {[to |-> "failed", state |-> connectionState]})
    ELSE IF activeConnectionType = "websocket" /\ ws # Null
    THEN {[to |-> IF wsState[ws] = "connecting" THEN "failed" ELSE "websocket",
           state |-> connectionState]}
    ELSE {[to |-> "no transport", state |-> connectionState]}

\* What sendMessage(message) may leave behind.  Nothing is handed over unless the
\* state is "connected"; then the message goes to the transport that
\* activeConnectionType names when its object is there.  ws.send() throws on a
\* WebSocket that has not opened, webrtc.sendMessage() may throw when the channel
\* is down, and the catch keeps either inside sendMessage.
sendMessage ==
    IF connectionState # "connected"
    THEN {[to |-> "dropped", state |-> connectionState]}
    ELSE IF activeConnectionType = "webrtc" /\ webrtc
    THEN {[to |-> "webrtc", state |-> connectionState]}
         \cup (IF rtcLive THEN {} ELSE {[to |-> "failed", state |-> connectionState]})
    ELSE IF activeConnectionType = "websocket" /\ ws # Null
    THEN {[to |-> IF wsState[ws] = "connecting" THEN "failed" ELSE "websocket",
           state |-> connectionState]}
    ELSE {[to |-> "no transport", state |-> connectionState]}

\* the fields of the bridge that tell its connection and its transport
Connection == << connectionState, reconnectAttempts, reconnectTimer, ws, wsState,
                 connectTimeout, rtcPending, activeConnectionType, webrtc, rtcLive >>

\* emitToServer(event, data): sendMessage({type, data, timestamp})
EmitToServer ==
    /\ lastSend' \in sendMessage
    /\ UNCHANGED << Connection, chosen, lastSettle, quiet, cfgVars, query, response,
                    bcVars, jobVars, auxVars >>

\* how a query's method stands in CONFIG.queries
QueryKinds == {"ok", "throws", "unregistered"}

\* A handler table that answers success whatever the method: what C16 must tell
\* apart from handleMCPQuery.
QueryResponseAlwaysOk(q) ==
    [id |-> q.id, success |-> TRUE, body |-> "data", for |-> q]

\* what handleMCPQuery passes to its callback, and the callback to sendMessage:
\* {type: 'mcp-response', id: message.id, data: {success, data | error}}
QueryResponse(q) ==
    [id |-> q.id, success |-> q.kind = "ok",
     body |-> IF q.kind = "ok" THEN "data" ELSE "error", for |-> q]

\* a message can reach handleMessage
CanReceive == rtcLive \/ \E i \in WsIds : wsState[i] = "open"

\* handleMessage({type: 'mcp-query', id, data}): a method without a handler is
\* answered in the same task, any other awaits its handler
QueryArrive(id, kind) ==
    /\ CanReceive
    /\ query = NoQuery
    /\ LET q == [id |-> id, kind |-> kind]
       IN  IF kind = "unregistered"
           THEN /\ response' = QueryResponse(q)
                /\ lastSend' \in sendMessage
                /\ UNCHANGED query
           ELSE /\ query' = q
                /\ response' = NoResponse
                /\ UNCHANGED lastSend
    /\ UNCHANGED << Connection, chosen, lastSettle, quiet, cfgVars, bcVars, jobVars, auxVars >>

\* the handler of the query returned, or threw
QueryDone ==
    /\ query # NoQuery
    /\ response' = QueryResponse(query)
    /\ lastSend' \in sendMessage
    /\ query' = NoQuery
    /\ UNCHANGED << Connection, chosen, lastSettle, quiet, cfgVars, bcVars, jobVars, auxVars >>

(* ------------------------------ job tracking ------------------------ *)

NonTerminal == {"queued", "generating", "processing"}
Terminal == {"complete", "failed", "cancelled", "expired"}

\* progress_percent for a step counter: step 4 of 20 is 20 per cent
Percent(step) == (step * 100) \div TotalSteps

\* getJobStatusWithProgress(promptId): a prompt found in the history is complete;
\* one found in the running queue is running, at a step drawn with Math.random()
\* from 1 .. totalSteps; one found in the pending queue is queued; any other, and
\* any request that fails, is failed
getJobStatusWithProgress(j) ==
    {[status |-> "failed", currentStep |-> 0]} \cup
    (IF external[j] \in {"done", "empty"}
     THEN {[status |-> "complete", currentStep |-> 0]}
     ELSE IF external[j] = "running"
     THEN {[status |-> "running", currentStep |-> k] : k \in 1 .. TotalSteps}
     ELSE IF external[j] = "pending"
     THEN {[status |-> "queued", currentStep |-> 0]}
     ELSE {})

\* A getJobImages that names a placeholder image when it finds none: what C24
\* must tell apart from getJobImages.
getJobImagesOrPlaceholder(j) == {1}

\* getJobImages(promptId): the number of image file names found in the outputs of
\* the prompt's history entry; none when the entry has no outputs, when there is
\* no entry, and when the request fails
getJobImages(j) ==
    IF external[j] = "done" THEN {0, 1} ELSE {0}

\* a job reaches the terminal status st
Finish(j, st) ==
    /\ jobs' = [jobs EXCEPT ![j].status = st,
                            ![j].completed_at = IF @ = Null THEN 1 ELSE @]
    /\ progressCallbacks' = progressCallbacks \ {j}

\* submit(spec): a new job in status queued, its prompt queued at the service and
\* its progress callback registered
Submit(j) ==
    /\ jobs[j].status = "none"
    /\ jobs' = [jobs EXCEPT ![j].status = "queued"]
    /\ external' = [external EXCEPT ![j] = "pending"]
    /\ progressCallbacks' = progressCallbacks \cup {j}
    /\ UNCHANGED << due, lastCancel, lastStatus, bcVars, sbVars, auxVars >>

\* one cycle of the poller for job j: a running prompt moves the job out of
\* queued and sets its progress from the step estimate, the last step moves it
\* to processing, a finished prompt completes a processing job when
\* getJobImages names an artifact and fails it when it names none, a failed one
\* fails the job; a signal for a job that has reached a terminal status is
\* ignored
Poll(j) ==
    /\ jobs[j].status # "none"
    /\ IF jobs[j].status \in Terminal
       THEN UNCHANGED << jobs, progressCallbacks >>
       ELSE \E r \in getJobStatusWithProgress(j) :
          CASE r.status = "queued" -> UNCHANGED << jobs, progressCallbacks >>
            [] r.status = "running" ->
                 /\ jobs' = [jobs EXCEPT
                       ![j].status = IF @ = "queued" THEN "generating"
                                     ELSE IF r.currentStep = TotalSteps THEN "processing"
                                     ELSE @,
                       ![j].progress_percent = Percent(r.currentStep)]
                 /\ UNCHANGED progressCallbacks
            [] r.status = "complete" ->
                 IF jobs[j].status = "queued"
                 THEN /\ jobs' = [jobs EXCEPT ![j].status = "generating"]
                      /\ UNCHANGED progressCallbacks
                 ELSE IF jobs[j].status = "generating"
                 THEN /\ jobs' = [jobs EXCEPT ![j].status = "processing"]
                      /\ UNCHANGED progressCallbacks
                 ELSE \E images \in getJobImages(j) :
                         IF images > 0
                         THEN /\ jobs' = [jobs EXCEPT ![j].status = "complete",
                                                      ![j].completed_at = 1,
                                                      ![j].progress_percent = 100,
                                                      ![j].result = images]
                              /\ progressCallbacks' = progressCallbacks \ {j}
                         ELSE Finish(j, "failed")
            [] OTHER -> Finish(j, "failed")
    /\ UNCHANGED << external, due, lastCancel, lastStatus, bcVars, sbVars, auxVars >>

\* handleWebSocketMessage({type: 'progress', data: {value, max}}): every
\* registered callback is called with the step counter, and the callback of a
\* job that is generating or processing sets its progress from it
PushProgress(value) ==
    /\ \E k \in JobIds : external[k] = "running"
    /\ jobs' = [j \in JobIds |->
                  IF j \in progressCallbacks /\ jobs[j].status \in {"generating", "processing"}
                  THEN [jobs[j] EXCEPT !.progress_percent = Percent(value)]
                  ELSE jobs[j]]
    /\ UNCHANGED << external, progressCallbacks, due, lastCancel, lastStatus, bcVars, sbVars, auxVars >>

\* cancelJob(promptId): POST /interrupt; true on status 200, false on any other
\* status and when the request fails
cancelJob == {TRUE, FALSE}

\* A cancel that is accepted whatever the status of the job: what C18 must tell
\* apart from cancel.
CancelAnyStatus(j, interrupted) ==
    /\ jobs[j].status # "none"
    /\ interrupted \in cancelJob
    /\ Finish(j, "cancelled")
    /\ lastCancel' = "ok"
    /\ UNCHANGED << external, due, lastStatus, bcVars, sbVars, auxVars >>

\* A cancel that answers ok for a job it does not touch: what C21 must tell
\* apart from cancel.
CancelSilently(j, interrupted) ==
    /\ jobs[j].status # "none"
    /\ interrupted \in cancelJob
    /\ IF jobs[j].status \in NonTerminal
       THEN Finish(j, "cancelled")
       ELSE UNCHANGED << jobs, progressCallbacks >>
    /\ lastCancel' = "ok"
    /\ UNCHANGED << external, due, lastStatus, bcVars, sbVars, auxVars >>

\* A cancel that marks the job only when the interrupt went through: what C22
\* must tell apart from cancel.
CancelIfInterrupted(j, interrupted) ==
    /\ jobs[j].status # "none"
    /\ interrupted \in cancelJob
    /\ IF jobs[j].status \in NonTerminal /\ interrupted
       THEN Finish(j, "cancelled") /\ lastCancel' = "ok"
       ELSE UNCHANGED << jobs, progressCallbacks >> /\ lastCancel' = "error"
    /\ UNCHANGED << external, due, lastStatus, bcVars, sbVars, auxVars >>

\* cancel(jobId): a queued, generating or processing job is marked cancelled,
\* whatever becomes of the interrupt sent to the service; for a job in a
\* terminal status nothing is changed and an error is returned
Cancel(j, interrupted) ==
    /\ jobs[j].status # "none"
    /\ interrupted \in cancelJob
    /\ IF jobs[j].status \in NonTerminal
       THEN Finish(j, "cancelled") /\ lastCancel' = "ok"
       ELSE UNCHANGED << jobs, progressCallbacks >> /\ lastCancel' = "error"
    /\ UNCHANGED << external, due, lastStatus, bcVars, sbVars, auxVars >>

\* the retention deadline of job j passes
RetentionPasses(j) ==
    /\ jobs[j].status # "none"
    /\ j \notin due
    /\ due' = due \cup {j}
    /\ UNCHANGED << jobs, external, progressCallbacks, lastCancel, lastStatus, bcVars, sbVars, auxVars >>

\* An expiry that leaves completed_at as it is: what C19 must tell apart from
\* expiry.
ExpireKeepsStamp(j) ==
    /\ j \in due
    /\ jobs[j].status \notin {"none", "expired"}
    /\ jobs' = [jobs EXCEPT ![j].status = "expired"]
    /\ progressCallbacks' = progressCallbacks \ {j}
    /\ UNCHANGED << external, due, lastCancel, lastStatus, bcVars, sbVars, auxVars >>

\* a job past its retention deadline is expired, from any status
Expire(j) ==
    /\ j \in due
    /\ jobs[j].status \notin {"none", "expired"}
    /\ Finish(j, "expired")
    /\ UNCHANGED << external, due, lastCancel, lastStatus, bcVars, sbVars, auxVars >>

\* the generation service: a pending prompt starts to run, a running one ends
\* with an artifact or without, and any prompt may be removed
ServiceStep(j, to) ==
    /\ \/ external[j] = "pending" /\ to = "running"
       \/ external[j] = "running" /\ to \in {"done", "empty"}
       \/ external[j] \in {"pending", "running"} /\ to = "gone"
    /\ external' = [external EXCEPT ![j] = to]
    /\ UNCHANGED << jobs, progressCallbacks, due, lastCancel, lastStatus, bcVars, sbVars, auxVars >>

(* ------------------------------ status query ------------------------ *)

\* An answer that has forgotten a job once it is expired: what C23 must tell
\* apart from the answer to check-map-status.
StatusResponseForgets(id) ==
    IF jobs[id].status \in {"none", "expired"}
    THEN [job |-> FALSE, status |-> "none", result |-> Null]
    ELSE [job |-> TRUE, status |-> jobs[id].status, result |-> jobs[id].result]

\* the answer to the check-map-status query: no job for an id nothing was
\* submitted under, the mark 'expired' and nothing of the old record for a job
\* removed after its retention window, else a snapshot of the job
StatusResponse(id) ==
    IF jobs[id].status = "none"
    THEN [job |-> FALSE, status |-> "none", result |-> Null]
    ELSE IF jobs[id].status = "expired"
    THEN [job |-> TRUE, status |-> "expired", result |-> Null]
    ELSE [job |-> TRUE, status |-> jobs[id].status, result |-> jobs[id].result]

\* what the bridge query of a status check may come to
QueryOutcomes == {"ok", "error", "throws"}

\* the switch of checkMapStatus over job.status
StatusText(status) ==
    CASE status = "queued" -> "queued"
      [] status \in {"generating", "processing"} -> "in progress"
      [] status = "complete" -> "complete"
      [] status = "failed" -> "failed"
      [] status = "expired" -> "expired"
      [] OTHER -> "returned status"

\* A checkMapStatus without its try/catch: what C25 must tell apart from
\* checkMapStatus.
checkMapStatusNoCatch(id, q) ==
    IF id = 0
    THEN [id |-> id, kind |-> "job_id is required", raised |-> FALSE, result |-> Null]
    ELSE IF q = "throws"
    THEN [id |-> id, kind |-> "error checking status", raised |-> TRUE, result |-> Null]
    ELSE IF q = "error"
    THEN [id |-> id, kind |-> "error", raised |-> FALSE, result |-> Null]
    ELSE LET r == StatusResponse(id)
         IN  IF ~r.job
             THEN [id |-> id, kind |-> "not found", raised |-> FALSE, result |-> Null]
             ELSE [id |-> id, kind |-> StatusText(r.status), raised |-> FALSE,
                   result |-> r.result]

\* checkMapStatus(input): id 0 stands for a job_id that is missing or empty;
\* the query may throw, answer with an error, or answer with or without a job;
\* whatever is thrown is caught and returned as text
checkMapStatus(id, q) ==
    IF id = 0
    THEN [id |-> id, kind |-> "job_id is required", raised |-> FALSE, result |-> Null]
    ELSE IF q = "throws"
    THEN [id |-> id, kind |-> "error checking status", raised |-> FALSE, result |-> Null]
    ELSE IF q = "error"
    THEN [id |-> id, kind |-> "error", raised |-> FALSE, result |-> Null]
    ELSE LET r == StatusResponse(id)
         IN  IF ~r.job
             THEN [id |-> id, kind |-> "not found", raised |-> FALSE, result |-> Null]
             ELSE [id |-> id, kind |-> StatusText(r.status), raised |-> FALSE,
                   result |-> r.result]

\* the check-map-status tool is called
CheckMapStatus(id, q) ==
    /\ lastStatus' = checkMapStatus(id, q)
    /\ UNCHANGED << jobs, external, progressCallbacks, due, lastCancel, bcVars, sbVars, auxVars >>

(* --------------------------- specifications --------------------------- *)

Next ==
    \/ \E c \in Calls : Send(c)
    \/ \E c \in Calls : ConnectOk(c)
    \/ \E c \in Calls : ConnectFail(c)
    \/ \E c \in Calls : TimerFire(c)
    \/ \E s \in Socks : \E n \in 1 .. 2 * NumCalls : Data(s, n)
    \/ \E s \in Socks : SockError(s)
    \/ \E s \in Socks : SockClose(s)
    \/ Cleanup
    \/ \E k \in Children : ChildExit(k)
    \/ \E k \in Children : ChildListen(k)
    \/ \E k \in Children : \E code \in ExitCodes : ChildDie(k, code)
    \/ ExtStop
    \/ \E s \in Socks : \E c \in Calls : \E e \in BOOLEAN : BackendRespond(s, c, e)
    \/ \E s \in Socks : \E e \in BOOLEAN : ConnLost(s, e)

\* every multiplexing step: requests, responses, lost connections
NextMux ==
    \/ \E c \in Calls : Send(c)
    \/ \E c \in Calls : ConnectOk(c)
    \/ \E s \in Socks : \E n \in 1 .. 2 * NumCalls : Data(s, n)
    \/ \E s \in Socks : SockError(s)
    \/ \E s \in Socks : SockClose(s)
    \/ \E s \in Socks : \E c \in Calls : \E e \in BOOLEAN : BackendRespond(s, c, e)
    \/ \E s \in Socks : \E e \in BOOLEAN : ConnLost(s, e)

\* every connection step: connect, retry, spawn, loss, cleanup
NextConn ==
    \/ \E c \in Calls : Send(c)
    \/ \E c \in Calls : ConnectOk(c)
    \/ \E c \in Calls : ConnectFail(c)
    \/ \E c \in Calls : TimerFire(c)
    \/ \E s \in Socks : SockError(s)
    \/ \E s \in Socks : SockClose(s)
    \/ Cleanup
    \/ \E k \in Children : ChildListen(k)
    \/ ExtStop
    \/ \E s \in Socks : \E e \in BOOLEAN : ConnLost(s, e)

\* every step of the bridge
NextBridge ==
    \/ Connect
    \/ ReconnectTimerFire
    \/ RtcConnected
    \/ RtcFailed
    \/ \E i \in WsIds : WsOpen(i)
    \/ \E i \in WsIds : WsError(i)
    \/ \E i \in WsIds : \E wasClean \in BOOLEAN : WsClose(i, wasClean)
    \/ \E i \in WsIds : ConnectTimeout(i)
    \/ Disconnect
    \/ RtcLost

\* every step of the bridge, and the messages it sends
NextSend ==
    \/ NextBridge
    \/ EmitToServer

\* every step of a bridge that does not reconnect, and the queries it answers
NextQuery ==
    \/ Connect
    \/ RtcConnected
    \/ RtcFailed
    \/ \E i \in WsIds : WsOpen(i)
    \/ \E i \in WsIds : WsError(i)
    \/ \E i \in WsIds : \E wasClean \in BOOLEAN : WsClose(i, wasClean)
    \/ \E i \in WsIds : ConnectTimeout(i)
    \/ Disconnect
    \/ RtcLost
    \/ \E id \in QueryIds : \E kind \in QueryKinds : QueryArrive(id, kind)
    \/ QueryDone

\* every step of the job table and of the generation service
NextJobs ==
    \/ \E j \in JobIds : Submit(j)
    \/ \E j \in JobIds : Poll(j)
    \/ \E value \in 1 .. TotalSteps : PushProgress(value)
    \/ \E j \in JobIds : \E interrupted \in BOOLEAN : Cancel(j, interrupted)
    \/ \E j \in JobIds : RetentionPasses(j)
    \/ \E j \in JobIds : Expire(j)
    \/ \E j \in JobIds : \E to \in {"running", "done", "empty", "gone"} : ServiceStep(j, to)

\* every step of the first job and of the generation service, and the status
\* queries made of the job table, under any id
NextStatus ==
    \/ Submit(1)
    \/ Poll(1)
    \/ \E value \in 1 .. TotalSteps : PushProgress(value)
    \/ \E interrupted \in BOOLEAN : Cancel(1, interrupted)
    \/ RetentionPasses(1)
    \/ Expire(1)
    \/ \E to \in {"running", "done", "empty", "gone"} : ServiceStep(1, to)
    \/ \E id \in 0 .. NumJobs : \E q \in QueryOutcomes : CheckMapStatus(id, q)

(* --------------------------- caller's timeout -------------------------- *)

\* The caller of send() races its own timer against the promise, and the timer
\* wins: send() has no timer and BackendClient offers nothing to withdraw a
\* request with, so no field of the client changes.
CallerTimeout(c) ==
    /\ alive
    /\ pc[c] = "written"
    /\ outcome[c].st = "pending"
    /\ c \notin timedOut
    /\ timedOut' = timedOut \cup {c}
    /\ UNCHANGED << bcVars, sbVars, jobVars, waitVars, worldVars, stream, stopVars, promptVars >>

\* concurrent calls over the sockets they open, and callers that stop waiting
NextTimeout ==
    \/ NextMux
    \/ \E c \in Calls : CallerTimeout(c)

(* ------------------------- ComfyUI service start ---------------------- *)

\* startService(): nothing to do when this.process is set and not killed;
\* otherwise spawn, register the 'exit' handler and wait for the service
StartService ==
    /\ waitPc = "idle"
    /\ process = "unset"
    /\ process' = "running"
    /\ child' = "running"
    /\ waitPc' = "test"
    /\ elapsedMs' = 0
    /\ UNCHANGED << forceTimer, timerRan, available, health, waitRet, worldVars, stream,
                    timedOut, promptVars, bcVars, sbVars, jobVars >>

\* while (Date.now() - startTime < maxWaitTime), and the throw after the loop
LoopTest ==
    /\ waitPc = "test"
    /\ IF elapsedMs < maxWaitTime
       THEN /\ waitPc' = "probe"
            /\ UNCHANGED waitRet
       ELSE /\ waitPc' = "done"
            /\ waitRet' = "timeout"
    /\ UNCHANGED << process, available, elapsedMs, health, worldVars, stream, moreVars,
                    bcVars, sbVars, jobVars >>

\* how long a checkHealth() may take: no time at all, or its whole timeout
ProbeTimes == {0, HealthTimeoutMs}

\* the loop body without its test of this.process
CheckHealthNoExitCheck(took) ==
    /\ waitPc = "probe"
    /\ elapsedMs' = elapsedMs + took
    /\ health' = IF available THEN "available" ELSE "unavailable"
    /\ IF available
       THEN /\ waitPc' = "done"
            /\ waitRet' = "ready"
       ELSE /\ waitPc' = "sleep"
            /\ UNCHANGED waitRet
    /\ UNCHANGED << process, available, worldVars, stream, moreVars, bcVars,
                    sbVars, jobVars >>

\* const health = await this.checkHealth(): return when it is available, throw
\* when this.process is unset, sleep otherwise
CheckHealth(took) ==
    /\ waitPc = "probe"
    /\ elapsedMs' = elapsedMs + took
    /\ health' = IF available THEN "available" ELSE "unavailable"
    /\ IF available
       THEN /\ waitPc' = "done"
            /\ waitRet' = "ready"
       ELSE IF process = "unset"
            THEN /\ waitPc' = "done"
                 /\ waitRet' = "exited"
            ELSE /\ waitPc' = "sleep"
                 /\ UNCHANGED waitRet
    /\ UNCHANGED << process, available, worldVars, stream, moreVars, bcVars,
                    sbVars, jobVars >>

\* await new Promise(resolve => setTimeout(resolve, checkInterval))
Sleep ==
    /\ waitPc = "sleep"
    /\ elapsedMs' = elapsedMs + checkInterval
    /\ waitPc' = "test"
    /\ UNCHANGED << process, available, health, waitRet, worldVars, stream, moreVars,
                    bcVars, sbVars, jobVars >>

\* the spawned service starts to answer on its port
ServiceListens ==
    /\ process = "running"
    /\ ~available
    /\ available' = TRUE
    /\ UNCHANGED << process, waitPc, elapsedMs, health, waitRet, worldVars, stream, moreVars,
                    bcVars, sbVars, jobVars >>

\* the spawned process exits, and this.process.on('exit') runs:
\* this.process = undefined
ProcessExit ==
    /\ child \in {"running", "termed"}
    /\ child' = "exited"
    /\ process' = "unset"
    /\ available' = FALSE
    /\ UNCHANGED << forceTimer, timerRan, waitPc, elapsedMs, health, waitRet, worldVars,
                    stream, timedOut, promptVars, bcVars,
                    sbVars, jobVars >>

\* a step of waitForServiceReady
WaitStep ==
    \/ LoopTest
    \/ \E took \in ProbeTimes : CheckHealth(took)
    \/ Sleep

\* stopService(): nothing when this.process is unset; else SIGTERM to the
\* process, the force-kill timer is set, and this.process = undefined
StopService ==
    /\ process = "running"
    /\ child' = IF child = "running" THEN "termed" ELSE child
    /\ forceTimer' = TRUE
    /\ process' = "unset"
    /\ UNCHANGED << timerRan, available, waitPc, elapsedMs, health, waitRet, worldVars,
                    stream, timedOut, promptVars, bcVars, sbVars, jobVars >>

\* the timer of stopService fires, 5000 ms later:
\* if (this.process && !this.process.killed) this.process.kill('SIGKILL')
ForceKillTimer ==
    /\ forceTimer
    /\ forceTimer' = FALSE
    /\ timerRan' = TRUE
    /\ child' = IF process = "running" THEN "exited" ELSE child
    /\ UNCHANGED << process, available, waitPc, elapsedMs, health, waitRet, worldVars,
                    stream, timedOut, promptVars, bcVars, sbVars, jobVars >>

\* every step of a service that is started and stopped
NextStop ==
    \/ StartService
    \/ WaitStep
    \/ ServiceListens
    \/ ProcessExit
    \/ StopService
    \/ ForceKillTimer

\* every step of a service start
NextService ==
    \/ StartService
    \/ WaitStep
    \/ ServiceListens
    \/ ProcessExit

(* ------------------- prompts in the generation service ---------------- *)

\* submitJob(input): POST /prompt queues a prompt under a new prompt_id
SubmitJob(p) ==
    /\ svc[p] = "none"
    /\ svc' = [svc EXCEPT ![p] = "pending"]
    /\ UNCHANGED << callbacks, lastProgress, lastInterrupt, timedOut, stopVars, waitVars,
                    worldVars, stream, bcVars, sbVars, jobVars >>

\* registerProgressCallback(promptId, callback): this.progressCallbacks.set(...)
registerProgressCallback(p) ==
    /\ svc[p] # "none"
    /\ p \notin callbacks
    /\ callbacks' = callbacks \cup {p}
    /\ UNCHANGED << svc, lastProgress, lastInterrupt, timedOut, stopVars, waitVars,
                    worldVars, stream, bcVars, sbVars, jobVars >>

\* unregisterProgressCallback(promptId): this.progressCallbacks.delete(promptId)
unregisterProgressCallback(p) ==
    /\ p \in callbacks
    /\ callbacks' = callbacks \ {p}
    /\ UNCHANGED << svc, lastProgress, lastInterrupt, timedOut, stopVars, waitVars,
                    worldVars, stream, bcVars, sbVars, jobVars >>

\* the service takes one pending prompt at a time, and the prompt it runs ends
PromptStep(p) ==
    /\ \/ /\ svc[p] = "pending"
          /\ \A q \in Prompts : svc[q] # "running"
          /\ svc' = [svc EXCEPT ![p] = "running"]
       \/ /\ svc[p] = "running"
          /\ svc' = [svc EXCEPT ![p] = "done"]
    /\ UNCHANGED << callbacks, lastProgress, lastInterrupt, timedOut, stopVars, waitVars,
                    worldVars, stream, bcVars, sbVars, jobVars >>

\* handleWebSocketMessage({type: 'progress', data}) for a step of running prompt
\* p: this.progressCallbacks.forEach(callback => callback(...))
handleWebSocketMessage(p) ==
    /\ svc[p] = "running"
    /\ lastProgress' = [owner |-> p, called |-> callbacks]
    /\ UNCHANGED << svc, callbacks, lastInterrupt, timedOut, stopVars, waitVars,
                    worldVars, stream, bcVars, sbVars, jobVars >>

\* cancelJob(promptId): POST /interrupt with an empty body, which names no
\* prompt; when the request reaches the service, the prompt that is running is
\* interrupted
CancelJob(p, reached) ==
    /\ svc[p] \in {"pending", "running"}
    /\ LET running == {q \in Prompts : svc[q] = "running"}
       IN  IF reached /\ running # {}
           THEN /\ svc' = [q \in Prompts |-> IF q \in running THEN "interrupted" ELSE svc[q]]
                /\ lastInterrupt' = [asked |-> p, stopped |-> CHOOSE q \in running : TRUE]
           ELSE /\ lastInterrupt' = [asked |-> p, stopped |-> Null]
                /\ UNCHANGED svc
    /\ UNCHANGED << callbacks, lastProgress, timedOut, stopVars, waitVars,
                    worldVars, stream, bcVars, sbVars, jobVars >>

\* every step of the prompts, their callbacks and the service
NextPrompts ==
    \/ \E p \in Prompts : SubmitJob(p)
    \/ \E p \in Prompts : registerProgressCallback(p)
    \/ \E p \in Prompts : unregisterProgressCallback(p)
    \/ \E p \in Prompts : PromptStep(p)
    \/ \E p \in Prompts : handleWebSocketMessage(p)
    \/ \E p \in Prompts : \E reached \in BOOLEAN : CancelJob(p, reached)

(* ----------------------- job-completed handling ----------------------- *)

\* ensureAIMapsFolderExists(), up to its await: game.folders.find(...)
existingFolder == folders > 0

\* handleMessage({type: 'job-completed', data}), not awaited by onmessage:
\* handleJobCompleted(data) throws on data without result or image_path, takes
\* the folder that exists, or starts Folder.create
handleJobCompleted(e, valid) ==
    /\ CanReceive
    /\ handler[e] = "none"
    /\ handler' = [handler EXCEPT ![e] = IF ~valid THEN "failed"
                                        ELSE IF existingFolder THEN "scene"
                                        ELSE "folder"]
    /\ UNCHANGED << folders, activated, waitVars, stream, moreVars, bcVars, sbVars, jobVars >>

\* await Folder.create({name: 'AI Generated Maps', type: 'Scene', ...}) ends: with
\* the new folder, or with an error that leaves the scene without a folder; then
\* Scene.create(sceneData) is started
FolderCreate(e, ok) ==
    /\ handler[e] = "folder"
    /\ folders' = IF ok THEN folders + 1 ELSE folders
    /\ handler' = [handler EXCEPT ![e] = "scene"]
    /\ UNCHANGED << activated, waitVars, stream, moreVars, bcVars, sbVars, jobVars >>

\* await Scene.create(sceneData) ends: the scene exists, or the handler fails
SceneCreate(e, ok) ==
    /\ handler[e] = "scene"
    /\ handler' = [handler EXCEPT ![e] = IF ok THEN "created" ELSE "failed"]
    /\ UNCHANGED << folders, activated, waitVars, stream, moreVars, bcVars, sbVars, jobVars >>

\* await scene.activate()
SceneActivate(e) ==
    /\ handler[e] = "created"
    /\ handler' = [handler EXCEPT ![e] = "done"]
    /\ activated' = activated \cup {e}
    /\ UNCHANGED << folders, waitVars, stream, moreVars, bcVars, sbVars, jobVars >>

\* a bridge that connects, and the job-completed events it handles
NextWorld ==
    \/ Connect
    \/ RtcConnected
    \/ \E i \in WsIds : WsOpen(i)
    \/ \E e \in Events : \E valid \in BOOLEAN : handleJobCompleted(e, valid)
    \/ \E e \in Events : \E ok \in BOOLEAN : FolderCreate(e, ok)
    \/ \E e \in Events : \E ok \in BOOLEAN : SceneCreate(e, ok)
    \/ \E e \in Events : SceneActivate(e)

\* the chunks in which a stream arrives
NextFrames == \E n \in 1 .. MaxStream : Data(1, n)

\* One call against the whole environment.
Spec == Init /\ [][Next]_vars

\* every step of a first call that finds no backend: spawn, retries, the request
\* and its response
NextStart ==
    \/ \E c \in Calls : Send(c)
    \/ \E c \in Calls : ConnectOk(c)
    \/ \E c \in Calls : ConnectFail(c)
    \/ \E c \in Calls : TimerFire(c)
    \/ \E k \in Children : ChildListen(k)
    \/ \E s \in Socks : \E c \in Calls : \E e \in BOOLEAN : BackendRespond(s, c, e)
    \/ \E s \in Socks : \E n \in 1 .. 2 * NumCalls : Data(s, n)

\* A timer that is set fires, and a connect() that was started ends, one way or
\* the other.
FairLoop(c) ==
    /\ WF_vars(TimerFire(c))
    /\ WF_vars(ConnectOk(c) \/ ConnectFail(c))

\* A backend that holds a request answers it, and what it wrote is delivered.
FairTraffic(s) ==
    /\ WF_vars(\E c \in Calls : \E e \in BOOLEAN : BackendRespond(s, c, e))
    /\ WF_vars(\E n \in 1 .. 2 * NumCalls : Data(s, n))

\* One call against the whole environment, with timers and connects that come to
\* an end.
SpecFair == Spec /\ FairLoop(1)

\* A bridge that may retry once, sending messages.
SpecSend == InitMsg /\ [][NextSend]_vars

\* A bridge that does not reconnect, answering queries.
SpecQuery == InitQuery /\ [][NextQuery]_vars

\* A bridge that may retry once, under every connectionType setting.
SpecSelect == InitSelect /\ [][NextBridge]_vars

\* The job table, with an idle client and an idle bridge.
SpecJobs == InitIdle /\ [][NextJobs]_vars

\* The job table and the status queries, with an idle client and an idle bridge.
SpecStatus == InitIdle /\ [][NextStatus]_vars

\* A service start, in which every step of the wait is taken in the end.
SpecService == InitIdle /\ [][NextService]_vars /\ WF_vars(WaitStep)

\* Job-completed events at a bridge that does not reconnect.
SpecWorld == InitQuery /\ [][NextWorld]_vars

\* Any stream of tokens, delivered in any chunks to a client with calls waiting.
SpecFrames == InitFrames /\ [][NextFrames]_vars

\* Concurrent calls whose callers impose a timeout of their own.
SpecTimeout == InitMux /\ [][NextTimeout]_vars

\* Prompts in the generation service, their progress callbacks and cancelJob.
SpecPrompts == InitIdle /\ [][NextPrompts]_vars

\* A service that is started and then stopped.
SpecStop == InitIdle /\ [][NextStop]_vars

\* send('list_tools', {}) with no backend running.
SpecStart == InitStart /\ [][NextStart]_vars /\ FairLoop(1) /\ FairTraffic(1)

\* The bridge, for every reconnectAttempts of the configuration and either
\* connection type.
SpecBridge == InitSocketBridge /\ [][NextBridge]_vars

\* Concurrent calls, multiplexed over the sockets they open.
SpecMux == InitMux /\ [][NextMux]_vars

\* The traffic of calls that connect one after another: a call connects only when
\* no other socket is open, as when each is awaited before the next is made.
NextInTurn ==
    /\ NextMux
    /\ Cardinality({s \in Socks : sockState'[s] = "open"}) <= 1

SpecInTurn == InitMux /\ [][NextInTurn]_vars

\* Two calls and the connection life cycle, without the traffic.
SpecConn == InitConn /\ [][NextConn]_vars

(* ------------------------ multiplexing properties --------------------- *)

\* C1: whatever the interleaving of send calls and the order of the responses, a
\* call settled by a response is settled by one that carries the id written in
\* the call's own request, never by a response with another id.
C1_SettledByOwnId ==
    \A c \in Calls :
        outcome[c].why = "response" =>
            /\ reqId[c] # Null
            /\ outcome[c].id = reqId[c]

\* Two calls with different ids in flight, the later one answered first.
C1_OutOfOrderWitness ==
    \E c, d \in Calls :
        /\ c < d
        /\ reqId[c] # reqId[d]
        /\ pc[c] = "written" /\ outcome[c].st = "pending" /\ pending[reqId[c]] = c
        /\ outcome[d].st = "resolved" /\ outcome[d].why = "response"

\* a step that is the 'error' or the 'close' event of some socket
LossEvent ==
    \E s \in Socks : sockState[s] \in {"errclose", "close"} /\ sockState'[s] # sockState[s]

\* C2: when a socket's 'error' or 'close' fires, every request in the pending table
\* at that moment is rejected with a connection-lost error, there and then and for
\* the first time; the table is left empty, so the event that follows rejects
\* nothing again, and no call is ever settled twice.
C2_RejectedOnceOnLoss ==
    /\ [](\A c \in Calls : settleCount[c] <= 1)
    /\ [][LossEvent =>
              /\ \A c \in PendingCalls(pending) :
                    /\ settleCount[c] = 0
                    /\ settleCount'[c] = 1
                    /\ outcome'[c].st = "rejected"
                    /\ outcome'[c].why \in {"sockError", "disconnected"}
              /\ PendingCalls(pending') = {}]_vars

\* Two requests were pending when the 'error' fired; 'error' and 'close' have both
\* run rejectAll and each call was rejected once.
C2_BothEventsWitness ==
    \E s \in Socks :
        /\ sockState[s] = "closed"
        /\ Cardinality({c \in Calls : outcome[c].why = "sockError" /\ settleCount[c] = 1}) >= 2

\* C3: every send settles at most once, and once its request is written it is
\* settled as soon as its response line has arrived whole or the connection it
\* was written on is closed.
C3_SettledOncePromptly ==
    \A c \in Calls :
        /\ settleCount[c] <= 1
        /\ c \in arrived => outcome[c].st # "pending"
        /\ (wroteOn[c] # Null /\ sockState[wroteOn[c]] = "closed") => outcome[c].st # "pending"

(* -------------------------- connection properties --------------------- *)

\* C4: whenever ensure() returns normally the client holds a socket that is not
\* null and not destroyed; a send whose ensure() did not return normally was
\* rejected with the error ensure() raised.
C4_EnsureUsableOrRaises ==
    \A c \in Calls :
        /\ ensureRet[c] # "unusable"
        /\ pc[c] = "written" => ensureRet[c] = "usable"
        /\ pc[c] = "failed" => ensureRet[c] \in {"usable", "threw"}
        /\ ensureRet[c] = "threw" =>
              /\ pc[c] = "failed"
              /\ outcome[c].st = "rejected"
              /\ outcome[c].why = "terminal"

\* Both outcomes side by side: the ensure() of call 1 raised after its last retry,
\* the ensure() of call 2 returned with a usable socket.
C4_BothOutcomesWitness ==
    /\ ensureRet[1] = "threw"
    /\ ensureRet[2] = "usable"

\* the calls inside connectWithRetry
InRetryLoop(c) == pc[c] \in {"connect0", "delay", "connect"}

\* C5: when the first connect() and all the retries fail, connectWithRetry ends: it
\* raises the terminal error after maxAttempts retries, the error names the cause
\* of the last failed attempt, and the send that started it is rejected with it,
\* once.  No call stays inside the loop for ever.
C5_TerminalErrorAfterRetries ==
    /\ [](\A c \in Calls :
            ensureRet[c] = "threw" =>
                /\ attempt[c] = maxAttempts
                /\ waited[c] = maxAttempts
                /\ outcome[c] = Rejected("terminal", lastCause[c])
                /\ settleCount[c] = 1
                /\ pc[c] = "failed")
    /\ \A c \in Calls : InRetryLoop(c) ~> (~InRetryLoop(c) \/ ~alive)

\* The loop ran out of retries, and the last attempt failed for another reason
\* than the first.
C5_ExhaustedWitness ==
    /\ ensureRet[1] = "threw"
    /\ outcome[1].st = "rejected"
    /\ outcome[1].cause = "ETIMEDOUT"
    /\ lastError[1] = "ETIMEDOUT"
    /\ failsLeft = 0

\* a step that is the exit handler of some child
ExitObserved == \E k \in Children : childState[k] = "dead" /\ childState'[k] = "reaped"

\* C6: when the exit of a backend is observed with code 0 the supervisor ends, and
\* once it has ended nothing happens any more: no retry, no connect, no respawn.
\* An exit with another code or by a signal leaves the supervisor running.
C6_CleanExitEndsSupervisor ==
    /\ [][ExitObserved => (alive' <=> lastExit' # "0")]_vars
    /\ [][alive]_vars
    /\ [](~alive => lastExit = "0")

\* The supervisor ended on a clean exit, in the middle of a retry loop.
C6_EndedWitness ==
    /\ ~alive
    /\ lastExit = "0"
    /\ InRetryLoop(1)

\* min(250 * 1.4^k, 2000) ms, written out in microseconds
ExpectedDelayUs(k) ==
    CASE k = 0 -> 250000
      [] k = 1 -> 350000
      [] k = 2 -> 490000
      [] k = 3 -> 686000
      [] k = 4 -> 960400
      [] k = 5 -> 1344560
      [] k = 6 -> 1882384
      [] OTHER -> 2000000

\* C7: the delay before retry k is min(250 * 1.4^k, 2000) ms; from one retry to the
\* next the delay never shrinks, it never exceeds the cap, and there are never
\* more than maxAttempts retries after the spawn.
C7_RetryDelays ==
    /\ [](\A c \in Calls :
            /\ attempt[c] <= maxAttempts
            /\ waited[c] <= maxAttempts
            /\ pc[c] \in {"delay", "connect"} =>
                  /\ attempt[c] < maxAttempts
                  /\ delayUs[c] = ExpectedDelayUs(attempt[c])
                  /\ delayUs[c] <= CapDelayMs * 1000)
    /\ [][\A c \in Calls : delayUs'[c] >= delayUs[c]]_vars

\* The last retry is being waited for, at the cap.
C7_LastRetryWitness ==
    /\ pc[1] = "delay"
    /\ attempt[1] = maxAttempts - 1
    /\ waited[1] = maxAttempts - 1
    /\ delayUs[1] = CapDelayMs * 1000

\* C9: a cleanup() that follows a cleanup() changes nothing: no signal is sent, no
\* socket is destroyed, every field stays as the first call left it.  No child is
\* ever signalled twice and no socket destroyed twice.
C9_CleanupIdempotent ==
    /\ [](\A k \in Children : sigCount[k] <= 1)
    /\ [](\A s \in Socks : destroyCount[s] <= 1)
    /\ [][cleanRun' = 2 =>
              UNCHANGED << socket, buffer, pending, backendProcess, alive, pc, outcome,
                           settleCount, sockState, killed, childState, sigCount,
                           destroyCount, wire, inbox >>]_vars

\* cleanup() ran twice in a row after a child was signalled and a socket destroyed.
C9_TwiceWitness ==
    /\ cleanRun = 2
    /\ backendProcess # Null /\ killed[backendProcess] /\ sigCount[backendProcess] = 1
    /\ socket # Null /\ sockState[socket] = "close" /\ destroyCount[socket] = 1

(* --------------------------- the first call --------------------------- *)

\* the ListTools handler: the tools of the result, or no tools when send rejects
ListToolsReturn(o) ==
    IF o.st = "resolved" THEN "tools"
    ELSE IF o.st = "rejected" THEN "empty"
    ELSE "none"

\* C10: send('list_tools', {}) with no backend running.  A connect that succeeds
\* does so after the backend was spawned and at least one delay was waited; the
\* caller gets no error from a failed attempt as long as retries are left; and
\* once the spawned backend listens while the loop still runs, the call is in the
\* end settled by the backend's response to its own request, the handler
\* returning the tools of a result.
C10_FirstCallStartsBackend ==
    /\ [](ensureRet[1] = "usable" =>
            /\ backendProcess = 1 /\ childState[1] = "running" /\ listener = 1
            /\ waited[1] >= 1)
    /\ [](outcome[1].st # "pending" =>
            /\ settleCount[1] = 1
            /\ \/ outcome[1].why = "response" /\ outcome[1].for = 1
                                             /\ outcome[1].id = reqId[1]
               \/ outcome[1].why = "terminal" /\ waited[1] = maxAttempts)
    /\ [](outcome[1].st = "resolved" => ListToolsReturn(outcome[1]) = "tools")
    /\ (listener # Null /\ InRetryLoop(1)) ~> (outcome[1].why = "response")

\* The call resolved with the response of the backend it spawned, after more than
\* one failed retry.
C10_ResolvedWitness ==
    /\ outcome[1].st = "resolved"
    /\ outcome[1].why = "response"
    /\ childState[1] = "running"
    /\ waited[1] >= 3
    /\ failsLeft <= maxAttempts - 2

(* ------------------------------ the bridge ---------------------------- *)

\* min(1000 * 2^k, 30000) ms, written out
ExpectedReconnectMs(k) ==
    CASE k = 0 -> 1000
      [] k = 1 -> 2000
      [] k = 2 -> 4000
      [] k = 3 -> 8000
      [] k = 4 -> 16000
      [] OTHER -> 30000

\* C8: the delays scheduleReconnect has chosen since the last successful
\* connection start at 1000 ms, double from one to the next until the cap, never
\* shrink and never exceed 30000 ms.
C8_ReconnectDelays ==
    /\ Len(chosen) = reconnectAttempts
    /\ \A i \in 1 .. Len(chosen) :
          /\ chosen[i] = ExpectedReconnectMs(i - 1)
          /\ chosen[i] <= ReconnectCapMs
          /\ i > 1 =>
                /\ chosen[i - 1] <= chosen[i]
                /\ chosen[i] = 2 * chosen[i - 1] \/ chosen[i] = ReconnectCapMs
    /\ reconnectTimer # Null => reconnectTimer <= ReconnectCapMs

\* Six failures in a row: the sixth delay is the cap.
C8_CapReachedWitness ==
    /\ Len(chosen) = 6
    /\ chosen[1] = ReconnectBaseMs
    /\ chosen[6] = ReconnectCapMs
    /\ reconnectTimer = ReconnectCapMs

C12_CleanCloseStaysQuiet ==
    [][quiet /\ quiet' => ~ReconnectScheduled /\ ~AttemptStarts]_vars

\* C13: when the active transport closes unexpectedly with the attempt count below
\* the ceiling, a reconnect is scheduled: the state becomes reconnecting and a
\* timer is set.
C13_UnexpectedCloseSchedules ==
    [][UnexpectedClose /\ reconnectAttempts < maxReconnectAttempts
           => connectionState' = "reconnecting" /\ reconnectTimer' # Null]_vars

\* C14: reconnectAttempts never exceeds maxReconnectAttempts, and a failure met
\* with the ceiling reached leaves the bridge disconnected with no reconnect
\* scheduled.
C14_RestsAtCeiling ==
    [][/\ reconnectAttempts' <= maxReconnectAttempts
       /\ FailureStep /\ reconnectAttempts >= maxReconnectAttempts
              => connectionState' = "disconnected" /\ reconnectTimer' = Null]_vars

\* C15: sendMessage hands a message to a transport only in state connected, in
\* any other state it hands it to none, and in no case does it change the
\* connection or raise to its caller (every outcome is one it returns with).
C15_SendBestEffort ==
    /\ [](/\ lastSend.to \in {"websocket", "webrtc"} => lastSend.state = "connected"
          /\ lastSend.state \notin {"none", "connected"} => lastSend.to = "dropped"
          /\ lastSend.to \in {"none", "dropped", "websocket", "webrtc", "failed",
                              "no transport"})
    /\ [][lastSend' # lastSend => UNCHANGED Connection]_vars

\* a message was dropped because the bridge was waiting to reconnect
C15_DroppedWitness ==
    /\ lastSend.to = "dropped"
    /\ lastSend.state = "reconnecting"
    /\ connectionState = "reconnecting"

\* C16: a query without a handler, or whose handler throws, is answered with its
\* own id and {success: false, error}; a query whose handler returns is answered
\* with its own id and {success: true, data}; answering changes neither the
\* connection state nor the transport.
C16_QueryAnswered ==
    /\ [](response # NoResponse =>
            /\ response.id = response.for.id
            /\ response.for.kind \in {"unregistered", "throws"}
                   => ~response.success /\ response.body = "error"
            /\ response.for.kind = "ok" => response.success /\ response.body = "data")
    /\ [][response' # response \/ query' # query => UNCHANGED Connection]_vars

\* a query for a method without a handler was refused and the bridge is still
\* connected over its WebSocket
C16_UnknownMethodWitness ==
    /\ response.for.kind = "unregistered"
    /\ ~response.success
    /\ connectionState = "connected"
    /\ ws # Null /\ wsState[ws] = "open"

\* the transport C17 names for a connectionType setting and a page protocol
ExpectedTransport ==
    IF configConnectionType \in {"auto", "unset"}
    THEN (IF pageProtocol = "https:" THEN "webrtc" ELSE "websocket")
    ELSE configConnectionType

\* C17: with connectionType 'auto' or unset the bridge selects WebRTC on an https
\* page and WebSocket otherwise, with 'webrtc' or 'websocket' it selects that
\* transport whatever the protocol, and connect() uses no other transport than
\* the selected one.
C17_TransportSelection ==
    /\ activeConnectionType \in {"none", ExpectedTransport}
    /\ ExpectedTransport = "websocket" => ~webrtc /\ ~rtcPending /\ ~rtcLive
    /\ ExpectedTransport = "webrtc" => ws = Null /\ \A i \in WsIds : wsState[i] = "none"

\* connected over a WebSocket on an https page because the setting says 'websocket'
C17_ExplicitOverridesWitness ==
    /\ configConnectionType = "websocket"
    /\ pageProtocol = "https:"
    /\ connectionState = "connected"
    /\ activeConnectionType = "websocket"
    /\ ws # Null /\ wsState[ws] = "open"

\* the status changes the state machine of a job allows
AllowedChange(from, to, isDue) ==
    \/ from = "none" /\ to = "queued"
    \/ from = "queued" /\ to = "generating"
    \/ from = "generating" /\ to = "processing"
    \/ from = "processing" /\ to = "complete"
    \/ from \in NonTerminal /\ to \in {"failed", "cancelled"}
    \/ from # "none" /\ to = "expired" /\ isDue

\* C18: every status change of a job is one of queued to generating to processing
\* to complete, a failure or a cancellation of a job that is queued, generating
\* or processing, or an expiry after the retention deadline.
C18_StatusStateMachine ==
    [][\A j \in JobIds :
          jobs'[j].status # jobs[j].status
              => AllowedChange(jobs[j].status, jobs'[j].status, j \in due)]_vars

\* a job went the whole way to complete and is past its retention deadline
C18_CompleteAndDueWitness ==
    \E j \in JobIds :
        /\ jobs[j].status = "complete"
        /\ external[j] = "done"
        /\ j \in due

\* C19: completed_at of a job is set exactly when its status is complete,
\* failed, cancelled or expired.
C19_CompletedAtIffTerminal ==
    \A j \in JobIds :
        jobs[j].status # "none"
            => (jobs[j].completed_at # Null <=> jobs[j].status \in Terminal)

\* a job expired while its prompt was still running
C19_ExpiredEarlyWitness ==
    \E j \in JobIds :
        /\ jobs[j].status = "expired"
        /\ external[j] = "running"
        /\ jobs[j].completed_at # Null

\* C20: progress_percent of a job never decreases from one observation to the
\* next while the job is generating or processing.
C20_ProgressMonotonic ==
    [][\A j \in JobIds :
          /\ jobs[j].status \in {"generating", "processing"}
          /\ jobs'[j].status \in {"generating", "processing"}
          => jobs'[j].progress_percent >= jobs[j].progress_percent]_vars

\* C21: a cancel of a complete job changes nothing in the job and returns an
\* error; a cancel of a queued job moves it to cancelled at once, and a job that
\* has reached a terminal status is never generating afterwards.
C21_CancelCompleteOrQueued ==
    [][/\ \A j \in JobIds : \A interrupted \in BOOLEAN :
             Cancel(j, interrupted) =>
                 /\ jobs[j].status = "complete"
                        => jobs'[j] = jobs[j] /\ lastCancel' = "error"
                 /\ jobs[j].status = "queued"
                        => jobs'[j].status = "cancelled" /\ lastCancel' = "ok"
       /\ \A j \in JobIds :
             jobs[j].status \in Terminal => jobs'[j].status # "generating"]_vars

\* a cancel was refused for a job that is complete
C21_RefusedWitness ==
    \E j \in JobIds :
        /\ jobs[j].status = "complete"
        /\ jobs[j].result # Null
        /\ lastCancel = "error"

\* C22: a cancel of a queued, generating or processing job marks it cancelled
\* whatever the interrupt call returned, and whatever the service reports of the
\* job afterwards its status stays cancelled (until it expires) and its result
\* unset.
C22_CancelledRegardless ==
    [][/\ \A j \in JobIds : \A interrupted \in BOOLEAN :
             Cancel(j, interrupted) /\ jobs[j].status \in NonTerminal
                 => jobs'[j].status = "cancelled"
       /\ \A j \in JobIds :
             jobs[j].status = "cancelled"
                 => /\ jobs'[j].status \in {"cancelled", "expired"}
                    /\ jobs[j].result = Null /\ jobs'[j].result = Null]_vars

\* a job is cancelled although the service has finished its prompt with an
\* artifact
C22_FinishedAfterCancelWitness ==
    \E j \in JobIds :
        /\ jobs[j].status = "cancelled"
        /\ external[j] = "done"
        /\ jobs[j].result = Null

C25_StatusAlwaysReturns ==
    /\ ~lastStatus.raised
    /\ lastStatus.kind # "none"
           => (lastStatus.kind = "job_id is required" <=> lastStatus.id = 0)

\* a status query returned although its bridge query had thrown, for a job that
\* is failed
C25_QueryThrewWitness ==
    /\ lastStatus.kind = "error checking status"
    /\ lastStatus.id \in JobIds
    /\ jobs[lastStatus.id].status = "failed"

(* ------------------------- service start properties -------------------- *)

C27_OneFolder ==
    /\ folders <= 1
    /\ \A e \in activated : handler[e] = "done"

(* --------------------------- lost-socket properties -------------------- *)

\* C28: a socket 'error' or 'close' leaves the pending table empty and
\* this.socket null; a send that finds no socket, or a destroyed one, starts a
\* connection attempt and writes nothing before it; and a request is only ever
\* written on a socket that is open, never on a lost one.
C28_LossForcesReconnect ==
    [][/\ \A s \in Socks :
            SockError(s) \/ SockClose(s) =>
                socket' = Null /\ \A i \in Ids : pending'[i] = Null
       /\ \A c \in Calls :
            Send(c) /\ (socket = Null \/ sockState[socket] # "open") =>
                pc'[c] = "connect0" /\ wroteOn'[c] = Null /\ pending' = pending
       /\ \A c \in Calls :
            wroteOn'[c] # wroteOn[c] => sockState'[wroteOn'[c]] = "open"]_vars

\* the first call's socket was lost and closed, and the second call wrote its
\* request on a socket of its own
C28_WroteOnNewSocketWitness ==
    /\ wroteOn[1] = 1
    /\ sockState[1] = "closed"
    /\ outcome[1].st = "rejected"
    /\ pc[2] = "written"
    /\ wroteOn[2] = 2
    /\ sockState[2] = "open"

(* ----------------------------- framing properties ---------------------- *)

\* the client before the first chunk of a stream, as InitFrames leaves it
FramesStart ==
    [socket |-> 1, buffer |-> << >>,
     pending |-> [i \in Ids |-> IF i \in callers THEN i ELSE Null],
     outcome |-> [c \in Calls |-> NoOutcome], settleCount |-> [c \in Calls |-> 0]]

\* the part of the stream that has been delivered
Delivered == SubSeq(stream, 1, Len(stream) - Len(wire[1]))

\* C29: however the stream is cut into chunks, the client is where one chunk
\* holding everything delivered so far would have brought it: the same promises
\* settled by the same frames, the same table, and the same unfinished frame in
\* the buffer, which is dispatched only once its newline has arrived.
C29_ChunkingIndependent == Cur = onData(FramesStart, Delivered)

\* a chunk ended in the middle of a frame: the half is in the buffer, its call
\* still waits, the other half and the newline are on the wire
C29_SplitFrameWitness ==
    /\ buffer = << Open(1, 1, FALSE) >>
    /\ wire[1] = << Rest(1, 1, FALSE), NL(1) >>
    /\ pending[1] = 1
    /\ outcome[1] = NoOutcome

\* the client after the step
CurNext == [socket |-> socket', buffer |-> buffer', pending |-> pending',
            outcome |-> outcome', settleCount |-> settleCount']

\* the chunk starts with a whole line that is not JSON or whose id is not pending
BadFirstLine(chunk) ==
    /\ IndexOfNL(chunk) > 1
    /\ LET line == SubSeq(chunk, 1, IndexOfNL(chunk) - 1)
       IN  ~ParseOk(line) \/ pending[line[1].id] = Null

\* C30: a chunk that starts with a frame which is not valid JSON, or whose id is
\* not in the pending table, has the effect of the frames that follow it in the
\* chunk and no other: the frame changes neither the table, nor the socket, nor
\* any promise, and the frames after it are dispatched.
C30_BadFrameDropped ==
    [][\A n \in 1 .. MaxStream :
          LET chunk == SubSeq(wire[1], 1, n)
          IN  (Data(1, n) /\ buffer = << >> /\ BadFirstLine(chunk)) =>
                 CurNext = onData(Cur, SubSeq(chunk, IndexOfNL(chunk) + 1, n))]_vars

\* a response nobody waits for came first and was dropped, the response to call
\* 1 came after it and settled the call
C30_DroppedThenDispatchedWitness ==
    /\ stream = << Body(2, 2, TRUE), NL(1), Body(1, 1, FALSE), NL(1) >>
    /\ callers = {1}
    /\ wire[1] = << >>
    /\ outcome[1].st = "resolved"
    /\ settleCount[2] = 0
    /\ buffer = << >>

(* ------------------------- caller-timeout properties ------------------- *)

\* C31: once the caller's timeout has fired for a request, the pending table
\* holds no entry for the request, and a response that arrives later for its id
\* settles nothing.
C31_TimedOutLeavesTable ==
    \A c \in timedOut :
        /\ \A i \in Ids : pending[i] # c
        /\ outcome[c].why # "response"

(* -------------------------- correlation-id properties ------------------ *)

\* C32: the id under which send() stores a request is held by no other pending
\* request at that moment: storing never replaces the entry of another call.
C32_InsertNeverOverwrites ==
    [][\A i \in Ids :
          pending[i] # Null => pending'[i] \in {Null, pending[i]}]_vars

(* ------------------------------ prompt properties ---------------------- *)

\* C33: a progress message of a running prompt calls the callback registered
\* under that prompt's id and no callback registered for another prompt; a
\* callback that was unregistered is not called.
C33_CallbackPerJob ==
    /\ [](lastProgress.called \subseteq {lastProgress.owner})
    /\ [][\A q \in Prompts : \A p \in Prompts :
             handleWebSocketMessage(q) /\ p \notin callbacks
                 => p \notin lastProgress'.called]_vars

\* C40: cancelJob(promptId) stops no prompt but the one it names.
C40_InterruptsOnlyNamed ==
    lastInterrupt.stopped \in {Null, lastInterrupt.asked}

(* ----------------------------- service stop properties ----------------- *)

\* C34: stopService sends SIGTERM to the running process, and once its timer
\* has fired the process is not left alive with SIGTERM alone: it has exited
\* by itself or was force-killed.
C34_ForceKillAfterGrace ==
    /\ [][StopService /\ child = "running" => child' = "termed"]_vars
    /\ [](timerRan => child # "termed")

(* --------------------------- stale-socket properties ------------------- *)

\* C35: an 'error' or 'close' of a socket that is no longer this.socket, a newer
\* connection having taken its place, leaves the reference to the newer socket
\* as it is and rejects no request that was written on the newer socket.
C35_StaleEventHarmless ==
    [][\A s \in Socks :
          ((SockError(s) \/ SockClose(s)) /\ socket # Null /\ socket # s) =>
              /\ socket' = socket
              /\ \A c \in Calls :
                    wroteOn[c] = socket /\ outcome[c].st = "pending"
                        => outcome'[c].st = "pending"]_vars

\* C36: calls issued while the client is disconnected share one connection
\* establishment: at no time is more than one spawned backend running, nor more
\* than one socket open with the client's data handlers attached.
C36_OneEstablishment ==
    /\ Cardinality({k \in Children : childState[k] = "running"}) <= 1
    /\ Cardinality({s \in Socks : sockState[s] = "open"}) <= 1

\* C37: what a lost connection left in the receive buffer is never joined with
\* data of another connection: when a chunk of socket s arrives, the buffer holds
\* nothing that was received on a socket which has since been lost.
C37_BufferOfOneConnection ==
    [][\A s \in Socks : \A n \in 1 .. 2 * NumCalls :
          Data(s, n) =>
              \A i \in 1 .. Len(buffer) :
                  \/ wroteOn[buffer[i].for] = s
                  \/ sockState[wroteOn[buffer[i].for]] = "open"]_vars

\* C38: a failed WebSocket counts once: the non-clean 'close' that follows the
\* 'error' of the same socket neither raises reconnectAttempts again nor sets
\* another reconnect timer.
C38_OneReconnectPerFailure ==
    [][\A i \in WsIds :
          WsClose(i, FALSE) /\ wsState[i] = "errored" =>
              /\ reconnectAttempts' = reconnectAttempts
              /\ ~ReconnectScheduled]_vars

\* C39: an 'open', 'error' or 'close' of a WebSocket that this.ws no longer
\* refers to, another having taken its place, changes neither connectionState
\* nor the reconnect schedule of the current connection.
C39_SupersededEventIgnored ==
    [][\A i \in WsIds :
          /\ ws # Null
          /\ i # ws
          /\ WsOpen(i) \/ WsError(i) \/ \E wasClean \in BOOLEAN : WsClose(i, wasClean)
          => /\ connectionState' = connectionState
             /\ ~ReconnectScheduled
             /\ reconnectTimer' = reconnectTimer]_vars

============================================================================
